---- MODULE Spec2Model ----
(***************************************************************************)
(* Model of the NSQ client: the connect handshake (conn/connection.rs),    *)
(* the frame decoding it relies on (codec.rs, error.rs), the heartbeat     *)
(* multiplexer that wraps the framed transport (conn/heartbeat.rs), the    *)
(* producer built on a connection (producer.rs), the two halves of a split *)
(* connection, the encoder and decoder of codec.rs, the IDENTIFY body of   *)
(* config.rs and the reconnect wrapper (conn/reconnect.rs).                *)
(*                                                                         *)
(* The specifications share the variables:                                 *)
(*   SpecConnect  the handshake, from the TCP connect to the returned      *)
(*                Connection (or the error / panic that ends it);          *)
(*   SpecRead     the reads of the handshake, byte by byte;                *)
(*   Spec         an established connection: the broker sends frames, the  *)
(*                caller polls the receive side and drives the send side;  *)
(*   SpecProducer publish calls in request-reply mode;                     *)
(*   SpecSink     sink mode: the reader task and the SinkProducer;         *)
(*   SpecStack    sink mode next to a Codec value that is upgraded;        *)
(*   SpecSplit    the Sink half and the Stream half of split(), each poll  *)
(*                taking the lock first;                                   *)
(*   SpecEncode   encode of Mpub and Config::identify as functions;        *)
(*   SpecDecode   Framed's decode over a byte stream arriving in chunks;   *)
(*   SpecReconnect the polls of the reconnect wrapper, arm by arm;         *)
(*   SpecLive     Spec with a receive side that is polled again and again  *)
(*                (weak fairness), for what is eventually answered;        *)
(*   SpecReconnectLive  SpecReconnect with polls that keep running and     *)
(*                connection attempts that may fail without end;           *)
(*   SpecCancel   SpecProducer with publish futures that are dropped;      *)
(*   SpecSinkClose  SpecSink with poll_close of the SinkProducer.          *)
(***************************************************************************)
EXTENDS Integers, Sequences, FiniteSets, TLC

\* ------------------------------------------------------------------ bounds
MaxFrames == 3          \* frames the broker sends on an established connection
MaxSends  == 1          \* application commands the caller submits
BackpressureBoundary == 1   \* buffered commands at which Framed::poll_ready flushes

\* ------------------------------------------------------------ wire vocabulary
\* codec.rs: the three frame types, and any other value of the i32 tag.
FRAME_TYPE_RESPONSE == "Response"
FRAME_TYPE_ERROR    == "Error"
FRAME_TYPE_MESSAGE  == "Message"
FRAME_TYPE_OTHER    == "Other"

HEARTBEAT_RESPONSE == "_heartbeat_"
OK_RESPONSE        == "OK"
CLOSE_WAIT         == "CLOSE_WAIT"
JSON_BODY          == "{json}"      \* any response body that is none of the three

\* Error codes the broker may send (the part of the error body before the
\* first space).
ErrorCodes == {"E_FIN_FAILED", "E_REQ_FAILED", "E_TOUCH_FAILED", "E_BAD_TOPIC"}

\* Server capabilities carried by the IDENTIFY reply (IdentifyResponse); wf
\* says whether the JSON value deserializes into the struct at all.
Caps(tls, snappy, deflate, auth, wf) ==
    [tls_v1 |-> tls, snappy |-> snappy, deflate |-> deflate,
     deflate_level |-> 0, auth_required |-> auth, wf |-> wf]

NoCaps == Caps(FALSE, FALSE, FALSE, FALSE, FALSE)

\* A frame as it sits on the wire: the frame type, the body, and for a JSON
\* response body the value it parses to.
Frame(t, b) == [frame |-> t, body |-> b, json |-> NoCaps]

JsonFrame(c) == [frame |-> FRAME_TYPE_RESPONSE, body |-> JSON_BODY, json |-> c]

ConnectedFrames ==
    { Frame(FRAME_TYPE_RESPONSE, b) :
          b \in {OK_RESPONSE, HEARTBEAT_RESPONSE, CLOSE_WAIT, JSON_BODY} }
    \cup { Frame(FRAME_TYPE_ERROR, c) : c \in ErrorCodes }
    \cup { Frame(FRAME_TYPE_MESSAGE, "m"), Frame(FRAME_TYPE_OTHER, "") }

\* ----------------------------------------------------------------- decoding
\* decode_raw_response: the body of a Response frame to its subvariant.
decode_raw_response(body) ==
    CASE body = OK_RESPONSE        -> "Ok"
      [] body = CLOSE_WAIT         -> "CloseWait"
      [] body = HEARTBEAT_RESPONSE -> "Heartbeat"
      [] OTHER                     -> "Json"

\* NsqCodec::decode on one complete frame: the NsqFramed variant, or the
\* "unknown frame type" error.
decode(f) ==
    CASE f.frame = FRAME_TYPE_RESPONSE -> decode_raw_response(f.body)
      [] f.frame = FRAME_TYPE_ERROR    -> "Error"
      [] f.frame = FRAME_TYPE_MESSAGE  -> "Message"
      [] OTHER                         -> "DecodeError"

\* is_fatal with E_TOUCH_FAILED left out of the non-fatal codes.
is_fatal_without_touch(code) == code \notin {"E_FIN_FAILED", "E_REQ_FAILED"}

\* NsqError::is_fatal
is_fatal(code) == code \notin {"E_FIN_FAILED", "E_REQ_FAILED", "E_TOUCH_FAILED"}

\* ------------------------------------------------------------------- state
VARIABLES
    \* the handshake (connect)
    pc,                 \* position of connect
    config,             \* the caller's Config, as far as connect reads it
    server,             \* the IdentifyResponse connect parsed
    first,              \* the decoded first frame read after IDENTIFY
    stack,              \* transport layers, bottom first
    steps,              \* the steps connect has performed, in order
    result,             \* what connect returned
    level,              \* compression level of the deflate layer (0: none)
    reads,              \* the decoded frames connect has read, in order
    \* the established connection (Heartbeat over Framed)
    phase,              \* "none", "connected", "panicked"
    response_remaining, \* Heartbeat.response_remaining
    status,             \* Heartbeat.status
    write_buf,          \* Framed write buffer: commands encoded, not yet written
    enc_buf,            \* commands written into the deflate encoder, not yet flushed
    wire,               \* commands written and flushed to the transport
    inbound,            \* frames the broker sent, not yet read by the multiplexer
    rdClosed,           \* the broker closed its side
    io,                 \* write side of the transport: "ok", "blocked", "broken"
    consumed,           \* frames the multiplexer has read, in order
    delivered,          \* what poll_next returned Ready with, in order
    \* the producer in request-reply mode (producer.rs)
    ppc,                \* position of the publish call in progress, or "idle"
    pcmd,               \* the command of the publish call in progress
    returns,            \* what the finished publish calls returned, in order
    \* the producer in sink mode (producer.rs, into_sink)
    rpc,                \* the reader task: "none", "reading", "done", "panicked"
    chan,               \* the oneshot error channel
    sent,               \* the values the reader passed to tx.send, in order
    slot,               \* SplitSink's slot: the command accepted, not yet handed on
    sink_ret,           \* what the last call on the SinkProducer returned
    \* a Codec value (conn/codec.rs)
    compress,           \* its Compress variant: "Plain", "Snappy", "Deflate", "None"
    \* the handshake at the level of bytes (read_response)
    bpc,                \* position: "none", "identify", "compress", "framed", ...
    sock,               \* bytes the server sent, still unread in the TCP socket
    lbuf,               \* bytes the compression layer has decoded and still holds
    blayer,             \* the compression layer installed: "none", "snappy", "deflate"
    chunks,             \* the bytes each read_response consumed, in order
    framed_buf,         \* what Framed read from the stack it was built on
    bsent,              \* everything the server sent, before compression
    \* the encoder and the IDENTIFY body as pure functions (codec.rs, config.rs)
    ein,                \* the value handed to encode / identify
    eout,               \* what it produced; <<>> before the call
    \* the decoder under Framed (codec.rs, LengthDelimitedCodec)
    dframes,            \* the frames the peer sent, in order
    ld_state,           \* DecodeState: <<>> for Head, <<n>> for Data(n)
    dec_out,            \* what decode returned other than need-more, in order
    dec_last,           \* what the last decode call returned
    \* the reconnect wrapper (conn/reconnect.rs)
    state,              \* State: "Idle", "Delaying", "Connecting", "Connected"
    strategy,           \* Strategy, the duration in milliseconds
    attempts,           \* the attempts counter
    delay,              \* seconds of the Delay created last
    rcall,              \* the poll in progress, "none" between calls
    rret,               \* what the last call on the wrapper returned
    rev,                \* what the wrapped future or connection answered last
    ready_ok,           \* poll_ready returned Ready(Ok) and since then the
                        \* caller has made poll_next calls only
    \* the two halves of Connection::split (SplitSink, SplitStream, BiLock)
    bilock,             \* who holds the lock: "unlocked", "sink", "stream"
    spos,               \* the Sink half: "out", the poll it is inside, "closed", "dropped"
    tpos,               \* the Stream half: "out", "in", "dropped"
    sret,               \* what the last call on the Sink half returned
    tret,               \* what the last poll of the Stream half returned
    wr_shut             \* the write side of the transport has been shut down

hsVars  == <<pc, config, server, first, stack, steps, result, level, reads>>
muxVars == <<phase, response_remaining, status, write_buf, enc_buf, wire,
             inbound, rdClosed, io, consumed, delivered>>
prodVars == <<ppc, pcmd, returns>>
\* Everything outside the handshake and the multiplexer.
sinkVars == <<rpc, chan, sent, slot, sink_ret>>
codecVars == <<compress>>
rawVars == <<bpc, sock, lbuf, blayer, chunks, framed_buf, bsent>>
encVars == <<ein, eout>>
decVars == <<dframes, ld_state, dec_out, dec_last>>
reconVars == <<state, strategy, attempts, delay, rcall, rret, rev, ready_ok>>
splitVars == <<bilock, spos, tpos, sret, tret, wr_shut>>
extVars == <<encVars, decVars, reconVars, splitVars>>
oldVars == <<hsVars, muxVars, prodVars, sinkVars, codecVars, rawVars, splitVars>>
auxVars == <<prodVars, sinkVars, codecVars, rawVars, extVars>>
vars    == <<pc, config, server, first, stack, steps, result, level, reads,
             phase, response_remaining, status, write_buf, enc_buf, wire,
             inbound, rdClosed, io, consumed, delivered,
             ppc, pcmd, returns, rpc, chan, sent, slot, sink_ret, compress,
             bpc, sock, lbuf, blayer, chunks, framed_buf, bsent,
             ein, eout, dframes, ld_state, dec_out, dec_last,
             state, strategy, attempts, delay, rcall, rret, rev, ready_ok,
             bilock, spos, tpos, sret, tret, wr_shut>>

\* Nothing has been handed to the encoder.
EncIdle ==
    /\ ein = [kind |-> "none"]
    /\ eout = <<>>

\* LengthDelimitedCodec::new, nothing decoded.
DecIdle ==
    /\ dframes = <<>>
    /\ ld_state = <<>>
    /\ dec_out = <<>>
    /\ dec_last = "none"

\* Reconnect::new with the Immediat strategy, never polled.
ReconIdle ==
    /\ state = "Idle"
    /\ strategy = [kind |-> "Immediat", ms |-> 0]
    /\ attempts = 0
    /\ delay = 0
    /\ rcall = "none"
    /\ rret = [op |-> "none", res |-> "none"]
    /\ rev = "none"
    /\ ready_ok = FALSE

\* Connection::split has not been called.
SplitIdle ==
    /\ bilock = "unlocked"
    /\ spos = "out"
    /\ tpos = "out"
    /\ sret = [op |-> "none", res |-> "none"]
    /\ tret = "none"
    /\ wr_shut = FALSE

\* The other components before they are used.
AuxInit ==
    /\ EncIdle
    /\ DecIdle
    /\ ReconIdle
    /\ SplitIdle
    /\ ppc = "idle"
    /\ pcmd = "none"
    /\ returns = <<>>
    /\ rpc = "none"
    /\ chan = [val |-> <<>>, tx |-> "alive"]
    /\ sent = <<>>
    /\ slot = <<>>
    /\ sink_ret = [op |-> "none", kind |-> "none", code |-> ""]
    /\ compress = "Plain"

\* No byte-level handshake is under way.
RawInit ==
    /\ bpc = "none"
    /\ sock = <<>>
    /\ lbuf = <<>>
    /\ blayer = "none"
    /\ chunks = <<>>
    /\ framed_buf = <<>>
    /\ bsent = <<>>

Range(s) == { s[i] : i \in DOMAIN s }


\* ------------------------------------------------- the heartbeat multiplexer
\* The fields of Heartbeat and of the Framed it owns, as one value, so that
\* the methods below can be composed the way poll_next composes them.
Mux == [rem |-> response_remaining, status |-> status, buf |-> write_buf,
        enc |-> enc_buf, z |-> "deflate" \in Range(stack), wire |-> wire,
        inq |-> inbound, consumed |-> consumed, delivered |-> delivered,
        phase |-> phase]

Nop == "NOP"
Pub == "PUB"

\* What a poll returns together with the state it leaves behind.
Ret(m, r) == [m |-> m, res |-> r]

\* An item poll_next returns Ready with. src tells whether it stands for an
\* inbound frame or for a condition of the transport.
Item(i, c, s) == [item |-> i, code |-> c, src |-> s]

\* DeflateStream::poll_write: the encoder takes the bytes into its buffer.
deflate_poll_write(m) == [m EXCEPT !.enc = m.enc \o m.buf, !.buf = <<>>]

\* DeflateStream::poll_flush: the encoder's poll_flush, which writes what it
\* holds to the socket and flushes the socket.
deflate_poll_flush(m, t) ==
    CASE t = "ok"      -> Ret([m EXCEPT !.wire = m.wire \o m.enc, !.enc = <<>>], "ready")
      [] t = "blocked" -> Ret(m, "pending")
      [] OTHER         -> Ret(m, "err")

\* A flush that puts the buffer in front of what was written before.
inner_poll_flush_in_front(m, t) ==
    CASE t = "ok"      -> Ret([m EXCEPT !.wire = m.buf \o m.enc \o m.wire,
                                        !.buf = <<>>, !.enc = <<>>], "ready")
      [] t = "blocked" -> Ret(m, "pending")
      [] OTHER         -> Ret(m, "err")

\* Framed::poll_flush, reached through Heartbeat::poll_flush: write the whole
\* buffer to the transport and flush it.
inner_poll_flush(m, t) ==
    IF m.z THEN deflate_poll_flush(deflate_poll_write(m), t)
    ELSE CASE t = "ok"      -> Ret([m EXCEPT !.wire = m.wire \o m.buf, !.buf = <<>>], "ready")
           [] t = "blocked" -> Ret(m, "pending")
           [] OTHER         -> Ret(m, "err")

\* Framed::poll_ready, reached through Heartbeat::poll_ready: ready unless the
\* write buffer has reached the backpressure boundary, then a flush.
inner_poll_ready(m, t) ==
    IF Len(m.buf) >= BackpressureBoundary THEN inner_poll_flush(m, t)
                                          ELSE Ret(m, "ready")

\* Framed::start_send, reached through Heartbeat::start_send: encode into the
\* write buffer.
inner_start_send(m, cmd) == [m EXCEPT !.buf = Append(m.buf, cmd)]

RECURSIVE SendNops(_)
\* the while loop of start_pong
SendNops(m) ==
    IF m.rem > 0
    THEN SendNops([inner_start_send(m, Nop) EXCEPT !.rem = m.rem - 1])
    ELSE m

\* start_pong that sends one Nop and leaves response_remaining as it was.
start_pong_keeps_count(m, t) ==
    LET r == inner_poll_ready(m, t) IN
    IF r.res # "ready" THEN r
    ELSE Ret([inner_start_send(r.m, Nop) EXCEPT !.status = "Responding"], "ready")

\* A start_pong that is Responding before poll_ready has let it send.
start_pong_early_status(m, t) ==
    LET r == inner_poll_ready(m, t) IN
    IF r.res # "ready" THEN Ret([r.m EXCEPT !.status = "Responding"], r.res)
    ELSE Ret([SendNops(r.m) EXCEPT !.status = "Responding"], "ready")

\* A start_pong that gives the reply up when poll_ready is not ready.
start_pong_forgets(m, t) ==
    LET r == inner_poll_ready(m, t) IN
    IF r.res # "ready" THEN Ret([r.m EXCEPT !.rem = 0], r.res)
    ELSE Ret([SendNops(r.m) EXCEPT !.status = "Responding"], "ready")

\* Heartbeat::start_pong
start_pong(m, t) ==
    LET r == inner_poll_ready(m, t) IN
    IF r.res # "ready" THEN r
    ELSE Ret([SendNops(r.m) EXCEPT !.status = "Responding"], "ready")

\* poll_pong that goes back to Reading without waiting for the flush.
poll_pong_no_wait(m, t) ==
    LET r == inner_poll_flush(m, t) IN
    Ret([r.m EXCEPT !.status = "Reading"], "ready")

\* Heartbeat::poll_pong
poll_pong(m, t) ==
    LET r == inner_poll_flush(m, t) IN
    IF r.res # "ready" THEN r
    ELSE Ret([r.m EXCEPT !.status = "Reading"], "ready")

\* poll_next returning Poll::Ready(it): the caller observes it. A transport
\* condition that is reported again by the next poll is recorded once.
Yield(m, it) ==
    IF /\ it.src = "transport"
       /\ m.delivered # <<>>
       /\ m.delivered[Len(m.delivered)] = it
    THEN Ret(m, "ready")
    ELSE Ret([m EXCEPT !.delivered = Append(m.delivered, it)], "ready")

\* A `?` that turns the error of start_pong / poll_pong into Pending.
PongFailed_swallowed(r) == Ret(r.m, "pending")

\* The `?` after start_pong / poll_pong: Pending is returned as Pending, an
\* error as Poll::Ready(Some(Err(e))).
PongFailed(r) ==
    IF r.res = "pending" THEN r
    ELSE Yield(r.m, Item("PongErr", "", "transport"))

\* The match arms of poll_next for a decoded frame other than a heartbeat.
Dispatch(m, f) ==
    LET v == decode(f) IN
    CASE v = "Ok"          -> Yield(m, Item("Ok", "", "frame"))
      [] v = "CloseWait"   -> Yield(m, Item("Eof", "", "frame"))
      [] v = "Json"        -> Ret([m EXCEPT !.phase = "panicked"], "panic")
      [] v = "Message"     -> Yield(m, Item("Msg", f.body, "frame"))
      [] v = "Error"       -> IF is_fatal(f.body)
                              THEN Yield(m, Item("Fatal", f.body, "frame"))
                              ELSE Yield(m, Item("Err", f.body, "frame"))
      [] OTHER             -> Yield(m, Item("StreamErr", "unknown frame type", "frame"))

RECURSIVE ReadLoop(_, _, _)
\* The loop of poll_next: read the inner stream until something is returned.
ReadLoop(m, t, closed) ==
    IF m.inq = <<>>
    THEN IF closed THEN Yield(m, Item("Eof", "", "transport"))
                   ELSE Ret(m, "pending")
    ELSE LET f  == Head(m.inq)
             m1 == [m EXCEPT !.inq = Tail(m.inq),
                             !.consumed = Append(m.consumed, f)]
         IN  IF decode(f) = "Heartbeat"
             THEN CHOOSE v \in {
                  IF s.res # "ready" THEN PongFailed(s)
                  ELSE CHOOSE w \in {
                       IF p.res # "ready" THEN PongFailed(p)
                       ELSE ReadLoop(p.m, t, closed)
                       : p \in {poll_pong(s.m, t)} } : TRUE
                  : s \in {start_pong([m1 EXCEPT !.rem = m1.rem + 1], t)} } : TRUE
             ELSE Dispatch(m1, f)

\* Heartbeat::poll_next
poll_next(m, t, closed) ==
    CHOOSE v \in {
    IF s.res # "ready" THEN PongFailed(s)
    ELSE CHOOSE w \in {
         IF p.res # "ready" THEN PongFailed(p)
         ELSE ReadLoop(p.m, t, closed)
         : p \in {IF s.m.status = "Responding" THEN poll_pong(s.m, t)
                                               ELSE Ret(s.m, "ready")} } : TRUE
    : s \in {IF m.rem > 0 THEN start_pong(m, t) ELSE Ret(m, "ready")} } : TRUE

\* Heartbeat::new
HeartbeatNew == [rem |-> 0, status |-> "Reading"]

\* Write a multiplexer value back to the variables.
SetMux(m) ==
    /\ response_remaining' = m.rem
    /\ status' = m.status
    /\ write_buf' = m.buf
    /\ enc_buf' = m.enc
    /\ wire' = m.wire
    /\ inbound' = m.inq
    /\ consumed' = m.consumed
    /\ delivered' = m.delivered
    /\ phase' = m.phase

AppCount(s) == Len(SelectSeq(s, LAMBDA c : c = Pub))

\* ------------------------------------------- actions, established connection
\* The broker writes one more frame to the connection.
BrokerSend ==
    /\ phase = "connected"
    /\ ~rdClosed
    /\ Len(consumed) + Len(inbound) < MaxFrames
    /\ \E f \in ConnectedFrames : inbound' = Append(inbound, f)
    /\ UNCHANGED <<auxVars, hsVars, phase, response_remaining, status,
                   write_buf, enc_buf, wire,
                   rdClosed, io, consumed, delivered>>

\* The broker closes the connection: the read side reaches end of file once
\* the frames already sent have been read.
BrokerClose ==
    /\ phase = "connected"
    /\ ~rdClosed
    /\ rdClosed' = TRUE
    /\ UNCHANGED <<auxVars, hsVars, phase, response_remaining, status,
                   write_buf, enc_buf, wire,
                   inbound, io, consumed, delivered>>

\* The write side of the transport stalls, recovers, or breaks for good.
TransportChange ==
    /\ phase = "connected"
    /\ io # "broken"
    /\ \E t \in {"ok", "blocked", "broken"} : t # io /\ io' = t
    /\ UNCHANGED <<auxVars, hsVars, phase, response_remaining, status,
                   write_buf, enc_buf, wire,
                   inbound, rdClosed, consumed, delivered>>

\* One poll of the receive side (Connection::receive, or the Stream half).
PollNext ==
    /\ phase = "connected"
    /\ SetMux(poll_next(Mux, io, rdClosed).m)
    /\ UNCHANGED <<auxVars, hsVars, rdClosed, io>>

\* The send side accepts one application command: poll_ready, then start_send.
SinkSend ==
    /\ phase = "connected"
    /\ AppCount(wire \o write_buf) < MaxSends
    /\ LET r == inner_poll_ready(Mux, io) IN
       /\ r.res = "ready"
       /\ SetMux(inner_start_send(r.m, Pub))
    /\ UNCHANGED <<auxVars, hsVars, rdClosed, io>>

\* The send side flushes (the tail of Connection::send).
SinkFlush ==
    /\ phase = "connected"
    /\ write_buf # <<>>
    /\ SetMux(inner_poll_flush(Mux, io).m)
    /\ UNCHANGED <<auxVars, hsVars, rdClosed, io>>

\* --------------------------------------------------------------- connect
\* Config as connect reads it. auth_secret is an Option: the empty sequence
\* is None, a one-element sequence is Some(secret).
Configs == [auth_secret : {<<>>, <<"">>, <<"s">>},
            feature_negotiation : BOOLEAN,
            tls_v1 : BOOLEAN]

DefaultConfig == [auth_secret |-> <<>>, feature_negotiation |-> TRUE,
                  tls_v1 |-> FALSE]

\* deflate_level values a server may announce.
DeflateLevels == {1, 6}

ServerCaps == { [Caps(t, s, d, a, TRUE) EXCEPT !.deflate_level = l] :
                    t \in BOOLEAN, s \in BOOLEAN, d \in BOOLEAN,
                    a \in BOOLEAN, l \in DeflateLevels }

\* What the peer may send while connect is reading.
HandshakeFrames ==
    ConnectedFrames
    \cup { JsonFrame(c) : c \in ServerCaps }
    \cup { JsonFrame(NoCaps) }

\* The locals of connect, as one value.
Hs == [pc |-> pc, server |-> server, first |-> first, stack |-> stack,
       steps |-> steps, result |-> result, level |-> level, reads |-> reads,
       wire |-> wire]

\* return Err(e)
Fail(h, e) == [h EXCEPT !.pc = "failed", !.result = e]

\* unreachable!()
Panic(h) == [h EXCEPT !.pc = "panicked", !.result = "panic"]

Did(h, step) == [h EXCEPT !.steps = Append(h.steps, step)]

Wrap(h, layer) == [h EXCEPT !.stack = Append(h.stack, layer)]

\* Ok((Heartbeat::new(framed), identify))
finish(h) ==
    [Did(Wrap(h, "heartbeat"), "Heartbeat") EXCEPT !.pc = "connected",
                                                   !.result = "Ok"]

\* auth, up to its first await: the secret, or the Auth error.
auth_begin(h, cfg) ==
    IF cfg.auth_secret = <<>> THEN Fail(h, "Auth")
                              ELSE [h EXCEPT !.pc = "auth_send"]

\* connect from Framed::new on: the codec, then AUTH if required, else done.
install_framed(h, cfg) ==
    LET f == Did(Wrap(h, "framed"), "Framed") IN
    IF f.server.auth_required THEN auth_begin(f, cfg) ELSE finish(f)

\* after_identify that wraps the compression layer and goes on without
\* reading the Ok that follows the upgrade.
after_identify_skips_ok(h, cfg) ==
    IF h.server.snappy
    THEN install_framed(Did(Wrap(h, "snappy"), "Snappy"), cfg)
    ELSE IF h.server.deflate
         THEN install_framed(Did(Wrap(h, "deflate"), "Deflate"), cfg)
         ELSE install_framed(h, cfg)

\* connect after the IDENTIFY reply was parsed: the compression layer the
\* server announced (the TLS upgrade is commented out: `let socket = tcp`).
after_identify(h, cfg) ==
    IF h.server.snappy
    THEN [Did(Wrap(h, "snappy"), "Snappy") EXCEPT !.pc = "read_compress_ok"]
    ELSE IF h.server.deflate
         THEN [Did(Wrap(h, "deflate"), "Deflate") EXCEPT
                   !.pc = "read_compress_ok", !.level = h.server.deflate_level]
         ELSE install_framed(h, cfg)

\* The match on the IDENTIFY reply.
on_identify_reply(h, cfg, f) ==
    LET v  == decode(f)
        h1 == [Did(h, "ReadIdentify") EXCEPT !.first = v,
                                             !.reads = Append(h.reads, v)]
    IN  CASE v = "DecodeError" -> Fail(h1, "UnknownFrameType")
          [] v = "Ok"          -> Panic(h1)
          [] v = "Json"        -> IF f.json.wf
                                  THEN after_identify([h1 EXCEPT !.server = f.json], cfg)
                                  ELSE Fail(h1, "Json")
          [] v = "Heartbeat"   -> Fail(h1, "UnexpectedEof")
          [] v = "CloseWait"   -> Fail(h1, "UnexpectedEof")
          [] v = "Message"     -> Panic(h1)
          [] OTHER             -> Fail(h1, "UnexpectedEof")

\* A match after the upgrade that takes whatever frame arrives for the Ok.
on_compress_reply_any(h, cfg, f) ==
    LET v  == decode(f)
        h1 == [Did(h, "ReadCompressOk") EXCEPT !.reads = Append(h.reads, v)]
    IN  install_framed(h1, cfg)

\* The `if let Ok = read_response(..)` after a compression layer was wrapped.
on_compress_reply(h, cfg, f) ==
    LET v  == decode(f)
        h1 == [Did(h, "ReadCompressOk") EXCEPT !.reads = Append(h.reads, v)]
    IN  CASE v = "DecodeError" -> Fail(h1, "UnknownFrameType")
          [] v = "Ok"          -> install_framed(h1, cfg)
          [] OTHER             -> Fail(h1, "ExpectedOk")

\* The match on the reply to AUTH.
on_auth_reply(h, f) ==
    LET v  == decode(f)
        h1 == [Did(h, "ReadAuth") EXCEPT !.reads = Append(h.reads, v)]
    IN  CASE v = "DecodeError" -> Fail(h1, "UnknownFrameType")
          [] v = "Json"        -> IF f.json.wf THEN finish(h1) ELSE Fail(h1, "Json")
          [] v = "Error"       -> Fail(h1, "NsqError")
          [] OTHER             -> Panic(h1)

\* Write the locals of connect back; a returned Connection is a fresh
\* Heartbeat over the framed transport.
SetHs(h) ==
    /\ pc' = h.pc
    /\ server' = h.server
    /\ first' = h.first
    /\ stack' = h.stack
    /\ steps' = h.steps
    /\ result' = h.result
    /\ level' = h.level
    /\ reads' = h.reads
    /\ wire' = h.wire
    /\ phase' = IF h.pc = "connected" THEN "connected" ELSE phase
    /\ response_remaining' = HeartbeatNew.rem
    /\ status' = HeartbeatNew.status
    /\ UNCHANGED <<auxVars, config, write_buf, enc_buf, inbound, rdClosed, io,
                   consumed, delivered>>

\* TcpStream::connect
TcpConnect ==
    /\ pc = "start"
    /\ \E ok \in BOOLEAN :
         SetHs(IF ok THEN [Wrap(Hs, "tcp") EXCEPT !.pc = "write_hello"]
                     ELSE Fail(Hs, "Io"))

\* Encode Version and Identify into one buffer and write_all it; a failed
\* write may have put a prefix on the wire.
WriteHello ==
    /\ pc = "write_hello"
    /\ \E n \in 0..2 :
         LET cmds == SubSeq(<<"Version", "Identify">>, 1, n)
             h    == [Hs EXCEPT !.wire = Hs.wire \o cmds,
                                !.steps = Hs.steps \o cmds]
         IN  SetHs(IF n = 2 THEN [h EXCEPT !.pc = "read_identify"]
                            ELSE Fail(h, "Io"))

\* read_response on the plain socket, and everything up to the next await.
ReadIdentify ==
    /\ pc = "read_identify"
    /\ \/ \E f \in HandshakeFrames : SetHs(on_identify_reply(Hs, config, f))
       \/ SetHs(Fail(Hs, "Io"))

\* read_response through the compression layer, and on to the next await.
ReadCompressOk ==
    /\ pc = "read_compress_ok"
    /\ \/ \E f \in HandshakeFrames : SetHs(on_compress_reply(Hs, config, f))
       \/ SetHs(Fail(Hs, "Io"))

\* transport.send(Command::Auth(secret))
AuthSend ==
    /\ pc = "auth_send"
    /\ \E ok \in BOOLEAN :
         SetHs(IF ok THEN [Did(Hs, "Auth") EXCEPT !.pc = "auth_read",
                                                  !.wire = Append(Hs.wire, "Auth")]
                     ELSE Fail(Hs, "Io"))

\* transport.next() in auth, and the rest of connect.
AuthRead ==
    /\ pc = "auth_read"
    /\ \/ \E f \in HandshakeFrames : SetHs(on_auth_reply(Hs, f))
       \/ SetHs(Fail(Hs, "UnexpectedEof"))

\* connect has not been called yet.
InitConnect ==
    /\ pc = "start"
    /\ config \in Configs
    /\ server = NoCaps
    /\ first = "none"
    /\ stack = <<>>
    /\ steps = <<>>
    /\ result = "none"
    /\ level = 0
    /\ reads = <<>>
    /\ phase = "none"
    /\ response_remaining = HeartbeatNew.rem
    /\ status = HeartbeatNew.status
    /\ write_buf = <<>>
    /\ enc_buf = <<>>
    /\ wire = <<>>
    /\ inbound = <<>>
    /\ rdClosed = FALSE
    /\ io = "ok"
    /\ consumed = <<>>
    /\ delivered = <<>>
    /\ AuxInit
    /\ RawInit

NextConnect ==
    \/ TcpConnect
    \/ WriteHello
    \/ ReadIdentify
    \/ ReadCompressOk
    \/ AuthSend
    \/ AuthRead

SpecConnect == InitConnect /\ [][NextConnect]_vars

\* An established connection right after connect returned it.
Init ==
    /\ pc = "connected"
    /\ config = DefaultConfig
    /\ server = Caps(FALSE, FALSE, FALSE, FALSE, TRUE)
    /\ first = "Json"
    /\ stack = <<"tcp", "framed", "heartbeat">>
    /\ steps = <<"Version", "Identify", "ReadIdentify", "Framed", "Heartbeat">>
    /\ result = "Ok"
    /\ level = 0
    /\ reads = <<"Json">>
    /\ phase = "connected"
    /\ response_remaining = HeartbeatNew.rem
    /\ status = HeartbeatNew.status
    /\ write_buf = <<>>
    /\ enc_buf = <<>>
    /\ wire = <<"Version", "Identify">>
    /\ inbound = <<>>
    /\ rdClosed = FALSE
    /\ io = "ok"
    /\ consumed = <<>>
    /\ delivered = <<>>
    /\ AuxInit
    /\ RawInit

Next ==
    \/ BrokerSend
    \/ BrokerClose
    \/ TransportChange
    \/ PollNext
    \/ SinkSend
    \/ SinkFlush

Spec == Init /\ [][Next]_vars

\* An established connection whose receive side is polled again and again
\* (the task that owns it is woken and polls until it is Pending).
MaxLiveFrames == 2      \* frames the broker sends while replies are followed

LiveBrokerSend ==
    /\ Len(consumed) + Len(inbound) < MaxLiveFrames
    /\ BrokerSend

NextLive ==
    \/ LiveBrokerSend
    \/ BrokerClose
    \/ TransportChange
    \/ PollNext
    \/ SinkSend
    \/ SinkFlush

SpecLive == Init /\ [][NextLive]_vars /\ WF_vars(PollNext)

\* ------------------------------------------------ producer, request-reply
MaxPublish == 2         \* publish calls the caller makes
MaxReplies == 2         \* frames the broker sends to a producer

\* The broker writes one more frame to a producer's connection.
BrokerReply ==
    /\ Len(consumed) + Len(inbound) < MaxReplies
    /\ BrokerSend

\* Command::cmd of the three publish commands.
PublishCmds == {"PUB", "MPUB", "DPUB"}

NoItem == Item("none", "", "none")

\* The first half of SinkExt::send: poll_ready, then start_send.
conn_send_feed(m, t, cmd) ==
    LET r == inner_poll_ready(m, t) IN
    IF r.res # "ready" THEN r ELSE Ret(inner_start_send(r.m, cmd), "ready")

\* A send that returns once the command is in the write buffer.
conn_send_feed_only(m, t) == Ret(m, "ready")

\* The second half of SinkExt::send (Connection::send): poll_flush until ready.
conn_send_flush(m, t) == inner_poll_flush(m, t)

\* Connection::receive followed by Producer::response: what the publish call
\* returns for the item poll_next produced.
response(it) ==
    CASE it.item = "Ok"    -> "Ok"
      [] it.item = "Err"   -> "NsqError"
      [] it.item = "Fatal" -> "NsqError"
      [] it.item = "Msg"   -> "panic"
      [] it.item = "Eof"   -> "UnexpectedEof"
      [] OTHER             -> "Io"

\* The publish call in progress returns.
Return(out, it) ==
    /\ ppc' = "idle"
    /\ pcmd' = "none"
    /\ returns' = Append(returns, [cmd |-> pcmd, at |-> ppc, out |-> out,
                                   item |-> it])

\* publish / multi_publish / deferred_publish is called.
Publish ==
    /\ phase = "connected"
    /\ ppc = "idle"
    /\ Len(returns) < MaxPublish
    /\ \E c \in PublishCmds : pcmd' = c
    /\ ppc' = "ready"
    /\ UNCHANGED <<extVars, codecVars, rawVars, hsVars, muxVars, returns, sinkVars>>

\* self.conn.send(cmd), up to start_send.
ProducerFeed ==
    /\ phase = "connected"
    /\ ppc = "ready"
    /\ LET r == conn_send_feed(Mux, io, pcmd) IN
       /\ SetMux(r.m)
       /\ CASE r.res = "ready"   -> ppc' = "flush" /\ UNCHANGED <<pcmd, returns>>
            [] r.res = "pending" -> UNCHANGED prodVars
            [] OTHER             -> Return("Io", NoItem)
    /\ UNCHANGED <<extVars, codecVars, rawVars, hsVars, rdClosed, io, sinkVars>>

\* self.conn.send(cmd), the flush; `?` returns its error.
ProducerFlush ==
    /\ phase = "connected"
    /\ ppc = "flush"
    /\ LET r == conn_send_flush(Mux, io) IN
       /\ SetMux(r.m)
       /\ CASE r.res = "ready"   -> ppc' = "receive" /\ UNCHANGED <<pcmd, returns>>
            [] r.res = "pending" -> UNCHANGED prodVars
            [] OTHER             -> Return("Io", NoItem)
    /\ UNCHANGED <<extVars, codecVars, rawVars, hsVars, rdClosed, io, sinkVars>>

\* self.response(): one poll of receive, and the match on what it returned.
ProducerReceive ==
    /\ phase = "connected"
    /\ ppc = "receive"
    /\ LET r  == poll_next(Mux, io, rdClosed)
           it == r.m.delivered[Len(r.m.delivered)]
       IN  /\ SetMux(r.m)
           /\ CASE r.res = "pending" -> UNCHANGED prodVars
                [] r.res = "panic"   -> ppc' = "panicked" /\ UNCHANGED <<pcmd, returns>>
                [] OTHER             ->
                     IF response(it) = "panic"
                     THEN ppc' = "panicked" /\ UNCHANGED <<pcmd, returns>>
                     ELSE Return(response(it), it)
    /\ UNCHANGED <<extVars, codecVars, rawVars, hsVars, rdClosed, io, sinkVars>>

\* A connection over a plain or a deflate transport, handed to a Producer.
InitProducer ==
    /\ pc = "connected"
    /\ config = DefaultConfig
    /\ first = "Json"
    /\ result = "Ok"
    /\ \E z \in BOOLEAN :
         IF z THEN /\ server = [Caps(FALSE, FALSE, TRUE, FALSE, TRUE)
                                   EXCEPT !.deflate_level = 6]
                   /\ stack = <<"tcp", "deflate", "framed", "heartbeat">>
                   /\ steps = <<"Version", "Identify", "ReadIdentify", "Deflate",
                                "ReadCompressOk", "Framed", "Heartbeat">>
                   /\ level = 6
                   /\ reads = <<"Json", "Ok">>
              ELSE /\ server = Caps(FALSE, FALSE, FALSE, FALSE, TRUE)
                   /\ stack = <<"tcp", "framed", "heartbeat">>
                   /\ steps = <<"Version", "Identify", "ReadIdentify", "Framed",
                                "Heartbeat">>
                   /\ level = 0
                   /\ reads = <<"Json">>
    /\ phase = "connected"
    /\ response_remaining = HeartbeatNew.rem
    /\ status = HeartbeatNew.status
    /\ write_buf = <<>>
    /\ enc_buf = <<>>
    /\ wire = <<"Version", "Identify">>
    /\ inbound = <<>>
    /\ rdClosed = FALSE
    /\ io = "ok"
    /\ consumed = <<>>
    /\ delivered = <<>>
    /\ AuxInit
    /\ RawInit

NextProducer ==
    \/ Publish
    \/ ProducerFeed
    \/ ProducerFlush
    \/ ProducerReceive
    \/ BrokerReply
    \/ BrokerClose
    \/ TransportChange

SpecProducer == InitProducer /\ [][NextProducer]_vars

\* The caller drops the future of the publish call in progress at one of its
\* await points (a select! or a timeout around it): the call is over, what
\* it wrote and what it left unread stay with the connection.
PublishDropped ==
    /\ phase = "connected"
    /\ ppc \in {"ready", "flush", "receive"}
    /\ Return("Dropped", NoItem)
    /\ UNCHANGED <<extVars, codecVars, rawVars, hsVars, muxVars, sinkVars>>

\* The publish calls over a transport that stays writable, some of them
\* dropped.
NextCancel ==
    \/ Publish
    \/ ProducerFeed
    \/ ProducerFlush
    \/ ProducerReceive
    \/ PublishDropped
    \/ BrokerReply

SpecCancel == InitProducer /\ [][NextCancel]_vars

\* ---------------------------------------------------- producer, sink mode
\* An error value as it travels over the channel or comes back from a poll.
Err(kind, code) == [kind |-> kind, code |-> code]

\* futures oneshot: Sender::send stores the value and consumes the sender.
oneshot_send(c, e) == [val |-> <<e>>, tx |-> "gone"]

\* The sender is dropped without a value.
oneshot_drop(c) == [c EXCEPT !.tx = "gone"]

\* Receiver::poll: the value if one is stored (it is taken), Canceled if the
\* sender is gone, Pending otherwise.
oneshot_poll(c) ==
    IF c.val # <<>> THEN [c |-> [c EXCEPT !.val = <<>>], res |-> "Ok", e |-> c.val[1]]
    ELSE IF c.tx = "gone" THEN [c |-> c, res |-> "Canceled", e |-> Err("none", "")]
    ELSE [c |-> c, res |-> "Pending", e |-> Err("none", "")]

\* A poll that takes the reader's error from the channel and reports ready.
sink_poll_drops_error(c) ==
    LET p == oneshot_poll(c) IN
    CASE p.res = "Ok"       -> [c |-> p.c, e |-> Err("ready", "")]
      [] p.res = "Canceled" -> [c |-> p.c, e |-> Err("UnexpectedEof", "")]
      [] OTHER              -> [c |-> p.c, e |-> Err("ready", "")]

\* A poll that reports ready whatever the channel holds.
sink_poll_always_ready(c) ==
    LET p == oneshot_poll(c) IN [c |-> p.c, e |-> Err("ready", "")]

\* A poll that takes a closed channel for one that is still open.
sink_poll_ignores_close(c) ==
    LET p == oneshot_poll(c) IN
    CASE p.res = "Ok" -> [c |-> p.c, e |-> p.e]
      [] OTHER        -> [c |-> p.c, e |-> Err("ready", "")]

\* SinkProducer::poll: the reader's error, UnexpectedEof for a closed
\* channel, ready while the channel is still open and empty.
sink_poll(c) ==
    LET p == oneshot_poll(c) IN
    CASE p.res = "Ok"       -> [c |-> p.c, e |-> p.e]
      [] p.res = "Canceled" -> [c |-> p.c, e |-> Err("UnexpectedEof", "")]
      [] OTHER              -> [c |-> p.c, e |-> Err("ready", "")]

\* The state of the reader task after one item of the stream.
Reader(r, c, s) == [rpc |-> r, chan |-> c, sent |-> s]

\* A reader that leaves its loop for a transport error only.
reader_breaks_on_io_only(it, c, s) ==
    CASE it.item = "Ok"  -> Reader("reading", c, s)
      [] it.item = "Msg" -> Reader("panicked", oneshot_drop(c), s)
      [] it.item = "Eof" -> Reader("done", oneshot_drop(c), s)
      [] it.item \in {"Err", "Fatal"}
                         -> Reader("reading", oneshot_send(c, Err("NsqError", it.code)),
                                   Append(s, Err("NsqError", it.code)))
      [] OTHER           -> Reader("done", oneshot_send(c, Err("Io", it.code)),
                                   Append(s, Err("Io", it.code)))

\* A reader that sends the error and goes on reading.
reader_keeps_reading(it, c, s) ==
    CASE it.item = "Ok"  -> Reader("reading", c, s)
      [] it.item = "Msg" -> Reader("panicked", oneshot_drop(c), s)
      [] it.item = "Eof" -> Reader("done", oneshot_drop(c), s)
      [] it.item \in {"Err", "Fatal"}
                         -> Reader("reading", oneshot_send(c, Err("NsqError", it.code)),
                                   Append(s, Err("NsqError", it.code)))
      [] OTHER           -> Reader("reading", oneshot_send(c, Err("Io", it.code)),
                                   Append(s, Err("Io", it.code)))

\* The body of the reader's loop for the item stream.next() returned.
reader_on_item(it, c, s) ==
    CASE it.item = "Ok"  -> Reader("reading", c, s)
      [] it.item = "Msg" -> Reader("panicked", oneshot_drop(c), s)
      [] it.item = "Eof" -> Reader("done", oneshot_drop(c), s)
      [] it.item \in {"Err", "Fatal"}
                         -> Reader("done", oneshot_send(c, Err("NsqError", it.code)),
                                   Append(s, Err("NsqError", it.code)))
      [] OTHER           -> Reader("done", oneshot_send(c, Err("Io", it.code)),
                                   Append(s, Err("Io", it.code)))

\* What a method of SplitSink leaves behind and returns.
SRet(m, sl, r) == [m |-> m, slot |-> sl, res |-> r]

\* SplitSink::poll_flush_slot: hand the slot's command to the connection.
split_flush_slot(m, sl, t) ==
    IF sl = <<>> THEN SRet(m, sl, "ready")
    ELSE LET r == inner_poll_ready(m, t) IN
         IF r.res # "ready" THEN SRet(r.m, sl, r.res)
         ELSE SRet(inner_start_send(r.m, sl[1]), <<>>, "ready")

\* SplitSink::poll_flush
split_poll_flush(m, sl, t) ==
    LET f == split_flush_slot(m, sl, t) IN
    IF f.res # "ready" THEN f
    ELSE LET r == inner_poll_flush(f.m, t) IN SRet(r.m, f.slot, r.res)

\* SplitSink::poll_ready: ready with an empty slot, else flush first.
split_poll_ready(m, sl, t) ==
    IF sl = <<>> THEN SRet(m, sl, "ready") ELSE split_poll_flush(m, sl, t)

\* The result of a call on the SinkProducer, as the caller sees it.
SinkRet(op, res) ==
    [op |-> op, kind |-> IF res = "err" THEN "Io" ELSE res, code |-> ""]

\* Producer::into_sink: the channel, the split, the spawned reader.
IntoSink ==
    /\ phase = "connected"
    /\ rpc = "none"
    /\ ppc = "idle"
    /\ rpc' = "reading"
    /\ UNCHANGED <<extVars, codecVars, rawVars, hsVars, muxVars, prodVars, chan, sent, slot, sink_ret>>

\* The reader task: one poll of stream.next(), and the loop body.
ReaderPoll ==
    /\ phase = "connected"
    /\ rpc = "reading"
    /\ LET r  == poll_next(Mux, io, rdClosed)
           it == r.m.delivered[Len(r.m.delivered)]
           n  == reader_on_item(it, chan, sent)
       IN  /\ SetMux(r.m)
           /\ CASE r.res = "pending" -> UNCHANGED <<rpc, chan, sent>>
                [] r.res = "panic"   -> /\ rpc' = "panicked"
                                        /\ chan' = oneshot_drop(chan)
                                        /\ sent' = sent
                [] OTHER             -> /\ rpc' = n.rpc
                                        /\ chan' = n.chan
                                        /\ sent' = n.sent
    /\ UNCHANGED <<extVars, codecVars, rawVars, hsVars, prodVars, rdClosed, io, slot, sink_ret>>

\* SinkProducer::poll_ready
SinkPollReady ==
    /\ phase = "connected"
    /\ rpc # "none"
    /\ LET p == sink_poll(chan) IN
       /\ chan' = p.c
       /\ IF p.e.kind # "ready"
          THEN /\ sink_ret' = [op |-> "poll_ready", kind |-> p.e.kind,
                                code |-> p.e.code]
               /\ UNCHANGED <<muxVars, slot>>
          ELSE LET r == split_poll_ready(Mux, slot, io) IN
               /\ SetMux(r.m)
               /\ slot' = r.slot
               /\ sink_ret' = SinkRet("poll_ready", r.res)
               /\ UNCHANGED <<rdClosed, io>>
    /\ UNCHANGED <<extVars, codecVars, rawVars, hsVars, prodVars, rpc, sent>>

\* SinkProducer::start_send, called after poll_ready returned ready.
SinkStartSend ==
    /\ phase = "connected"
    /\ sink_ret = SinkRet("poll_ready", "ready")
    /\ AppCount(wire \o enc_buf \o write_buf \o slot) < MaxSends
    /\ slot' = <<Pub>>
    /\ sink_ret' = SinkRet("start_send", "ready")
    /\ UNCHANGED <<extVars, codecVars, rawVars, hsVars, muxVars, prodVars, rpc, chan, sent>>

\* SinkProducer::poll_flush
SinkPollFlush ==
    /\ phase = "connected"
    /\ rpc # "none"
    /\ LET p == sink_poll(chan) IN
       /\ chan' = p.c
       /\ IF p.e.kind # "ready"
          THEN /\ sink_ret' = [op |-> "poll_flush", kind |-> p.e.kind,
                                code |-> p.e.code]
               /\ UNCHANGED <<muxVars, slot>>
          ELSE LET r == split_poll_flush(Mux, slot, io) IN
               /\ SetMux(r.m)
               /\ slot' = r.slot
               /\ sink_ret' = SinkRet("poll_flush", r.res)
               /\ UNCHANGED <<rdClosed, io>>
    /\ UNCHANGED <<extVars, codecVars, rawVars, hsVars, prodVars, rpc, sent>>

NextSink ==
    \/ IntoSink
    \/ ReaderPoll
    \/ SinkPollReady
    \/ SinkStartSend
    \/ SinkPollFlush
    \/ BrokerReply
    \/ BrokerClose
    \/ TransportChange

SpecSink == InitProducer /\ [][NextSink]_vars

\* -------------------------------------------------------------- the codec
\* use_snappy that wraps whatever codec it finds.
use_snappy_unchecked(c) == "Snappy"

\* Compress::use_snappy: a Plain codec becomes Snappy; for any other the
\* method panics, after mem::replace has left Compress::None behind.
use_snappy(c) == IF c = "Plain" THEN "Snappy" ELSE "None"

\* Compress::use_deflate
use_deflate(c) == IF c = "Plain" THEN "Deflate" ELSE "None"

\* Codec::use_snappy is called.
UseSnappy ==
    /\ compress' = use_snappy(compress)
    /\ UNCHANGED <<extVars, hsVars, muxVars, prodVars, sinkVars, rawVars>>

\* Codec::use_deflate is called.
UseDeflate ==
    /\ compress' = use_deflate(compress)
    /\ UNCHANGED <<extVars, hsVars, muxVars, prodVars, sinkVars, rawVars>>

\* A connection in sink mode, and a codec next to it.
NextStack ==
    \/ NextSink
    \/ UseSnappy
    \/ UseDeflate

SpecStack == InitProducer /\ [][NextStack]_vars

\* ------------------------------------------- the handshake, byte by byte
MaxWire == 3            \* frames the server sends while connect is reading

\* timestamp (8), attempts (2) and message id (MESSAGE_ID_LEN = 16)
MESSAGE_HEAD_LEN == 26

\* A 32-bit big-endian integer below 65536, as four bytes.
BE32(n) == <<0, 0, n \div 256, n % 256>>

\* A frame on the wire: size, frame type, body.
EncFrame(t, body) == BE32(4 + Len(body)) \o BE32(t) \o body

OkBody      == <<79, 75>>              \* "OK"
PlainBody   == <<123, 125>>            \* an IDENTIFY reply without compression
SnappyBody  == <<123, 115, 125>>       \* an IDENTIFY reply with snappy: true
DeflateBody == <<123, 100, 125>>       \* an IDENTIFY reply with deflate: true

\* What the server may send: well-formed frames, a frame whose size is
\* smaller than a frame type, and an empty frame.
WireFrames ==
    { EncFrame(0, OkBody), EncFrame(0, PlainBody), EncFrame(0, SnappyBody),
      EncFrame(0, DeflateBody), EncFrame(1, <<69>>), EncFrame(2, <<109>>),
      EncFrame(7, <<>>), BE32(2) \o <<0, 0>>, BE32(0) }

\* The compression layers, byte for byte: what the server's encoder makes of
\* a byte and what the client's decoder makes of it.
Zip(b)   == [i \in DOMAIN b |-> 255 - b[i]]
Unzip(b) == [i \in DOMAIN b |-> 255 - b[i]]

\* The transport connect reads from: the socket, and over it the layer.
Transport == [sock |-> sock, lbuf |-> lbuf, layer |-> blayer]

\* The buffered reader of a compression layer: it takes what the socket
\* holds, decodes it and keeps it.
fill(t) ==
    IF t.layer = "none" THEN t
    ELSE [t EXCEPT !.lbuf = t.lbuf \o Unzip(t.sock), !.sock = <<>>]

\* read_exact(n): n bytes from the top of the stack, or as many as there are
\* before the end of the stream.
read_exact(t, n) ==
    LET f   == fill(t)
        src == IF f.layer = "none" THEN f.sock ELSE f.lbuf
        k   == IF n <= Len(src) THEN n ELSE Len(src)
        rst == SubSeq(src, k + 1, Len(src))
    IN  [t     |-> IF f.layer = "none" THEN [f EXCEPT !.sock = rst]
                                        ELSE [f EXCEPT !.lbuf = rst],
         bytes |-> SubSeq(src, 1, k),
         ok    |-> k = n]

\* get_i32 on four bytes whose first is below 128.
get_i32(b) == b[1] * 16777216 + b[2] * 65536 + b[3] * 256 + b[4]

\* The match of NsqCodec::decode on the payload LengthDelimitedCodec
\* yielded: the variant, "DecodeError" for its Err, "panic" when the payload
\* is too short for the get_i32 of the frame type or, in a Message, for the
\* timestamp, attempts and id decode_message takes from it.
decode_payload(payload) ==
    IF Len(payload) < 4 THEN "panic"
    ELSE LET t    == get_i32(SubSeq(payload, 1, 4))
             body == SubSeq(payload, 5, Len(payload))
         IN  CASE t = 0 -> CASE body = OkBody      -> "Ok"
                             [] body = SnappyBody  -> "JsonSnappy"
                             [] body = DeflateBody -> "JsonDeflate"
                             [] OTHER              -> "Json"
               [] t = 1 -> "Error"
               [] t = 2 -> IF Len(body) < MESSAGE_HEAD_LEN THEN "panic"
                                                           ELSE "Message"
               [] OTHER -> "DecodeError"

\* NsqCodec::decode on the buffer read_response filled with one frame.
decode_bytes(buf) == decode_payload(SubSeq(buf, 5, Len(buf)))

\* What read_response leaves behind, what it took, and what it returns.
RRet(t, taken, res) == [t |-> t, taken |-> taken, res |-> res]

\* A read_response that reads through a buffer of its own: it takes what
\* the transport holds and decodes the first frame of it.
read_response_buffered(t) ==
    LET all == read_exact(t, Len(fill(t).sock) + Len(fill(t).lbuf)) IN
    IF Len(all.bytes) < 4 THEN RRet(all.t, all.bytes, "Eof")
    ELSE LET len == get_i32(SubSeq(all.bytes, 1, 4)) IN
         IF Len(all.bytes) < 4 + len THEN RRet(all.t, all.bytes, "Eof")
         ELSE RRet(all.t, all.bytes, decode_bytes(SubSeq(all.bytes, 1, 4 + len)))

\* read_response: four bytes, the size they hold, that many bytes, decode.
read_response(t) ==
    LET h == read_exact(t, 4) IN
    IF ~h.ok THEN RRet(h.t, h.bytes, "Eof")
    ELSE IF h.bytes[1] >= 128 THEN RRet(h.t, h.bytes, "panic")
    ELSE LET len == get_i32(h.bytes)
             b   == read_exact(h.t, len)
         IN  IF ~b.ok THEN RRet(b.t, h.bytes \o b.bytes, "Eof")
             ELSE RRet(b.t, h.bytes \o b.bytes, decode_bytes(h.bytes \o b.bytes))

\* Write a transport value and a position back to the variables.
SetRaw(r, p, layer) ==
    /\ sock' = r.t.sock
    /\ lbuf' = r.t.lbuf
    /\ chunks' = Append(chunks, r.taken)
    /\ blayer' = layer
    /\ bpc' = p
    /\ UNCHANGED <<framed_buf, bsent>>

\* read_response on the plain socket, and the layer connect wraps next.
ByteReadIdentify ==
    /\ bpc = "identify"
    /\ LET r == read_response(Transport) IN
       CASE r.res = "JsonSnappy"  -> SetRaw(r, "compress", "snappy")
         [] r.res = "JsonDeflate" -> SetRaw(r, "compress", "deflate")
         [] r.res = "Json"        -> SetRaw(r, "framed", "none")
         [] r.res \in {"panic", "Ok", "Message"}
                                  -> SetRaw(r, "panicked", "none")
         [] OTHER                 -> SetRaw(r, "failed", "none")
    /\ UNCHANGED <<extVars, hsVars, muxVars, prodVars, sinkVars, codecVars>>

\* read_response through the compression layer.
ByteReadCompressOk ==
    /\ bpc = "compress"
    /\ LET r == read_response(Transport) IN
       CASE r.res = "Ok"    -> SetRaw(r, "framed", blayer)
         [] r.res = "panic" -> SetRaw(r, "panicked", blayer)
         [] OTHER           -> SetRaw(r, "failed", blayer)
    /\ UNCHANGED <<extVars, hsVars, muxVars, prodVars, sinkVars, codecVars>>

\* Framed::new over the stack, and its first read: everything the stack
\* still holds reaches the codec's read buffer.
ByteFramedRead ==
    /\ bpc = "framed"
    /\ LET r == fill(Transport) IN
       /\ framed_buf' = IF r.layer = "none" THEN r.sock ELSE r.lbuf
       /\ sock' = <<>>
       /\ lbuf' = <<>>
    /\ bpc' = "done"
    /\ UNCHANGED <<blayer, chunks, bsent>>
    /\ UNCHANGED <<extVars, hsVars, muxVars, prodVars, sinkVars, codecVars>>

RECURSIVE Flatten(_)
Flatten(ss) == IF ss = <<>> THEN <<>> ELSE Head(ss) \o Flatten(Tail(ss))

\* The sequences of at most n frames.
FrameSeqs(n) == UNION { [1..k -> WireFrames] : k \in 1..n }

\* What the server puts on the socket for the frames fs: the first frame as
\* it is, the rest through the encoder of the compression it announced; cut
\* bytes short of the end when the connection breaks.
ServerBytes(fs, cut) ==
    LET rest  == Flatten(Tail(fs))
        reply == decode_bytes(Head(fs))
        z     == reply \in {"JsonSnappy", "JsonDeflate"}
        all   == Head(fs) \o (IF z THEN Zip(rest) ELSE rest)
    IN  SubSeq(all, 1, Len(all) - cut)

\* connect has written Version and Identify; the server's answer is on its
\* way.
InitRead ==
    /\ pc = "read_identify"
    /\ config = DefaultConfig
    /\ server = NoCaps
    /\ first = "none"
    /\ stack = <<"tcp">>
    /\ steps = <<"Version", "Identify">>
    /\ result = "none"
    /\ level = 0
    /\ reads = <<>>
    /\ phase = "none"
    /\ response_remaining = HeartbeatNew.rem
    /\ status = HeartbeatNew.status
    /\ write_buf = <<>>
    /\ enc_buf = <<>>
    /\ wire = <<"Version", "Identify">>
    /\ inbound = <<>>
    /\ rdClosed = FALSE
    /\ io = "ok"
    /\ consumed = <<>>
    /\ delivered = <<>>
    /\ AuxInit
    /\ bpc = "identify"
    /\ lbuf = <<>>
    /\ blayer = "none"
    /\ chunks = <<>>
    /\ framed_buf = <<>>
    /\ \E fs \in FrameSeqs(MaxWire), cut \in 0..1 :
          /\ sock = ServerBytes(fs, cut)
          /\ bsent = SubSeq(Flatten(fs), 1, Len(Flatten(fs)) - cut)

NextRead ==
    \/ ByteReadIdentify
    \/ ByteReadCompressOk
    \/ ByteFramedRead

SpecRead == InitRead /\ [][NextRead]_vars

\* ------------------------------------------- encode and identify (pure)
MaxMsgs         == 2    \* messages of one Mpub
MaxMsgLen       == 2    \* bytes of one message
MaxDeflateLevel == 6    \* levels a Config asks for

MESSAGE_SIZE_LEN == 4

BodyBytes == {97, 98}
MessageBodies == UNION { [1..n -> BodyBytes] : n \in 0..MaxMsgLen }
MessageLists  == UNION { [1..n -> MessageBodies] : n \in 0..MaxMsgs }

\* Command::header of Mpub(topic, _) with the topic "t": "MPUB t\n"
MpubHeader == <<77, 80, 85, 66, 32, 116, 10>>

RECURSIVE fold_body_len(_, _)
\* msgs.iter().fold(acc, |acc, msg| acc + msg.len() + MESSAGE_SIZE_LEN)
fold_body_len(acc, msgs) ==
    IF msgs = <<>> THEN acc
    ELSE fold_body_len(acc + Len(Head(msgs)) + MESSAGE_SIZE_LEN, Tail(msgs))

RECURSIVE put_messages(_)
\* the second fold of the Messages arm: put_u32(msg.len()), put(msg)
put_messages(msgs) ==
    IF msgs = <<>> THEN <<>>
    ELSE BE32(Len(Head(msgs))) \o Head(msgs) \o put_messages(Tail(msgs))

\* NsqCodec::encode of Mpub(topic, msgs): header, body_len, count, messages.
encode(msgs) ==
    LET body_len == fold_body_len(8, msgs) IN
    MpubHeader \o BE32(body_len) \o BE32(Len(msgs)) \o put_messages(msgs)

\* Compress, the compression mode of a Config.
Compressions ==
    {[mode |-> "Disabled"], [mode |-> "Snappy"]}
        \cup {[mode |-> "Deflate", level |-> l] : l \in 0..MaxDeflateLevel}

IdentifyConfigs == [tls_v1 : BOOLEAN, compress : Compressions,
                    feature_negotiation : BOOLEAN]

\* A serializer that writes the snappy key for every mode.
serialize_compress_all_keys(c) ==
    CASE c.mode = "Disabled" -> << <<"snappy", FALSE>>, <<"deflate", FALSE>> >>
      [] c.mode = "Snappy"   -> << <<"snappy", TRUE>>, <<"deflate", FALSE>> >>
      [] OTHER               -> << <<"snappy", FALSE>>, <<"deflate", TRUE>>,
                                   <<"deflate_level", c.level>> >>

\* serialize_compress: the entries written for each mode, in order.
serialize_compress(c) ==
    CASE c.mode = "Disabled" -> << <<"snappy", FALSE>>, <<"deflate", FALSE>> >>
      [] c.mode = "Snappy"   -> << <<"snappy", TRUE>> >>
      [] OTHER               -> << <<"deflate", TRUE>>,
                                   <<"deflate_level", c.level>> >>

\* serialize_tls: one boolean, true iff a TlsConfig is present.
serialize_tls(t) == << <<"tls_v1", t>> >>

\* Config::identify: the object serde builds from the fields in declaration
\* order, the compression entries flattened into it.
identify(c) ==
    serialize_tls(c.tls_v1) \o serialize_compress(c.compress)
        \o << <<"feature_negotiation", c.feature_negotiation>> >>

\* object.get(key): the values the object holds under key.
Get(obj, key) == { obj[i][2] : i \in { k \in DOMAIN obj : obj[k][1] = key } }

\* codec.encode(Mpub(..), buf) on an empty buffer.
EncodeMpub ==
    /\ ein.kind = "Mpub"
    /\ eout = <<>>
    /\ eout' = encode(ein.msgs)
    /\ UNCHANGED <<oldVars, decVars, reconVars, ein>>

\* config.identify()
Identify ==
    /\ ein.kind = "Config"
    /\ eout = <<>>
    /\ eout' = identify(ein.config)
    /\ UNCHANGED <<oldVars, decVars, reconVars, ein>>

\* No connection is involved.
OldIdle ==
    /\ pc = "none"
    /\ config = DefaultConfig
    /\ server = NoCaps
    /\ first = "none"
    /\ stack = <<>>
    /\ steps = <<>>
    /\ result = "none"
    /\ level = 0
    /\ reads = <<>>
    /\ phase = "none"
    /\ response_remaining = HeartbeatNew.rem
    /\ status = HeartbeatNew.status
    /\ write_buf = <<>>
    /\ enc_buf = <<>>
    /\ wire = <<>>
    /\ inbound = <<>>
    /\ rdClosed = FALSE
    /\ io = "ok"
    /\ consumed = <<>>
    /\ delivered = <<>>
    /\ ppc = "idle"
    /\ pcmd = "none"
    /\ returns = <<>>
    /\ rpc = "none"
    /\ chan = [val |-> <<>>, tx |-> "alive"]
    /\ sent = <<>>
    /\ slot = <<>>
    /\ sink_ret = [op |-> "none", kind |-> "none", code |-> ""]
    /\ compress = "Plain"
    /\ SplitIdle

InitEncode ==
    /\ OldIdle
    /\ RawInit
    /\ DecIdle
    /\ ReconIdle
    /\ \/ \E m \in MessageLists : ein = [kind |-> "Mpub", msgs |-> m]
       \/ \E c \in IdentifyConfigs : ein = [kind |-> "Config", config |-> c]
    /\ eout = <<>>

NextEncode == EncodeMpub \/ Identify

SpecEncode == InitEncode /\ [][NextEncode]_vars

\* ------------------------------------------------ decoding under Framed
MaxDecFrames == 2       \* frames in the inbound byte stream

\* A message body: timestamp, attempts and id, then one byte of data.
MsgBody == [i \in 1..MESSAGE_HEAD_LEN |-> 48] \o <<109>>

\* Frames a peer may send: a response, an error, a message, a frame of an
\* unknown type, and frames too short for what they announce.
DecFrames ==
    { EncFrame(0, OkBody), EncFrame(1, <<69>>), EncFrame(2, MsgBody),
      EncFrame(7, <<>>), EncFrame(2, <<109>>), BE32(2) \o <<0, 0>>, BE32(0) }

\* LengthDelimitedCodec::decode_head: the length field once four bytes are
\* there, and the buffer advanced past it.
decode_head(buf) ==
    IF Len(buf) < 4 THEN [some |-> FALSE, n |-> 0, buf |-> buf]
    ELSE [some |-> TRUE, n |-> get_i32(SubSeq(buf, 1, 4)),
          buf |-> SubSeq(buf, 5, Len(buf))]

\* A decode_data that hands on what the buffer holds so far.
decode_data_eager(n, buf) ==
    LET k == IF Len(buf) < n THEN Len(buf) ELSE n IN
    [some |-> TRUE, data |-> SubSeq(buf, 1, k),
     buf |-> SubSeq(buf, k + 1, Len(buf))]

\* LengthDelimitedCodec::decode_data: split n bytes off once they are there.
decode_data(n, buf) ==
    IF Len(buf) < n THEN [some |-> FALSE, data |-> <<>>, buf |-> buf]
    ELSE [some |-> TRUE, data |-> SubSeq(buf, 1, n),
          buf |-> SubSeq(buf, n + 1, Len(buf))]

\* LengthDelimitedCodec::decode: st is <<>> in state Head, <<n>> in Data(n).
length_delimited_decode(st, buf) ==
    LET h == IF st = <<>> THEN decode_head(buf)
                          ELSE [some |-> TRUE, n |-> st[1], buf |-> buf]
    IN  IF ~h.some THEN [st |-> <<>>, buf |-> buf, frame |-> <<>>]
        ELSE LET d == decode_data(h.n, h.buf) IN
             IF ~d.some THEN [st |-> <<h.n>>, buf |-> h.buf, frame |-> <<>>]
             ELSE [st |-> <<>>, buf |-> d.buf, frame |-> <<d.data>>]

\* NsqCodec::decode (impl Decoder): Ok(None) as "need_more", else what the
\* match on the frame type gives for the payload.
codec_decode(st, buf) ==
    LET r == length_delimited_decode(st, buf) IN
    IF r.frame = <<>>
    THEN [st |-> r.st, buf |-> r.buf, res |-> "need_more", payload |-> <<>>]
    ELSE [st |-> r.st, buf |-> r.buf, res |-> decode_payload(r.frame[1]),
          payload |-> r.frame[1]]

\* Framed stops calling decode after an Err; a panic ends the task.
DecStopped == dec_last \in {"DecodeError", "panic"}

\* Some more bytes of the stream arrive in Framed's read buffer.
Arrive ==
    /\ dframes # <<>>
    /\ ~DecStopped
    /\ \E k \in 1..Len(sock) :
         /\ framed_buf' = framed_buf \o SubSeq(sock, 1, k)
         /\ sock' = SubSeq(sock, k + 1, Len(sock))
    /\ UNCHANGED <<hsVars, muxVars, prodVars, sinkVars, codecVars, encVars,
                   reconVars, splitVars, decVars, bpc, lbuf, blayer, chunks, bsent>>

\* Framed calls decode on its read buffer.
FramedDecode ==
    /\ dframes # <<>>
    /\ ~DecStopped
    /\ LET r == codec_decode(ld_state, framed_buf) IN
       /\ ld_state' = r.st
       /\ framed_buf' = r.buf
       /\ dec_last' = r.res
       /\ dec_out' = IF r.res = "need_more" THEN dec_out
                     ELSE Append(dec_out, [res |-> r.res, payload |-> r.payload])
    /\ UNCHANGED <<hsVars, muxVars, prodVars, sinkVars, codecVars, encVars,
                   reconVars, splitVars, dframes, bpc, sock, lbuf, blayer, chunks, bsent>>

InitDecode ==
    /\ OldIdle
    /\ EncIdle
    /\ ReconIdle
    /\ \E n \in 1..MaxDecFrames : dframes \in [1..n -> DecFrames]
    /\ ld_state = <<>>
    /\ dec_out = <<>>
    /\ dec_last = "none"
    /\ bpc = "none"
    /\ sock = Flatten(dframes)
    /\ bsent = Flatten(dframes)
    /\ framed_buf = <<>>
    /\ lbuf = <<>>
    /\ blayer = "none"
    /\ chunks = <<>>

NextDecode == Arrive \/ FramedDecode

SpecDecode == InitDecode /\ [][NextDecode]_vars

\* ------------------------------------------------- the reconnect wrapper
MaxAttempts == 2        \* failures in a row the environment produces

\* Durations a caller configures, in milliseconds.
Durations == {500, 1000, 2500}

\* Strategy
Strategies == {[kind |-> "Immediat", ms |-> 0]}
                 \cup {[kind |-> "Exponential", ms |-> d] : d \in Durations}

\* Duration::as_secs
as_secs(ms) == ms \div 1000

\* The polls a caller makes on the wrapper.
RPolls == {"poll_next", "poll_ready", "poll_flush", "poll_close"}

\* The call in progress returns.
RReturn(res) ==
    /\ rret' = [op |-> rcall, res |-> res]
    /\ rcall' = "none"

\* A Connecting arm that leaves attempts as it is on success.
connecting_keeps_attempts(res, a) ==
    IF res = "Ok" THEN [state |-> "Connected", attempts |-> a]
                  ELSE [state |-> "Idle", attempts |-> a + 1]

\* The Connecting arm of poll_connected for a future that is ready.
connecting(res, a) ==
    IF res = "Ok" THEN [state |-> "Connected", attempts |-> 0]
                  ELSE [state |-> "Idle", attempts |-> a + 1]

\* The Some(Err(_)) and None arms of poll_next.
stream_failed(a) == [state |-> "Idle", attempts |-> a + 1]

\* The caller polls the wrapper.
RCall ==
    /\ rcall = "none"
    /\ \E op \in RPolls :
         /\ rcall' = op
         /\ ready_ok' = (ready_ok /\ op = "poll_next")
    /\ rev' = "none"
    /\ UNCHANGED <<oldVars, encVars, decVars, state, strategy, attempts, delay,
                   rret>>

\* poll_connected, State::Idle
RIdle ==
    /\ rcall \in RPolls
    /\ state = "Idle"
    /\ IF strategy.kind = "Immediat"
       THEN state' = "Connecting" /\ UNCHANGED delay
       ELSE /\ state' = "Delaying"
            /\ delay' = as_secs(strategy.ms) * attempts
    /\ rev' = "none"
    /\ UNCHANGED <<oldVars, encVars, decVars,
                   ready_ok, strategy, attempts, rcall, rret>>

\* poll_connected, State::Delaying: the delay is polled; one of zero
\* seconds has elapsed.
RDelaying ==
    /\ rcall \in RPolls
    /\ state = "Delaying"
    /\ \E elapsed \in BOOLEAN :
         /\ delay = 0 => elapsed
         /\ IF elapsed
            THEN /\ state' = "Connecting"
                 /\ rev' = "Elapsed"
                 /\ UNCHANGED <<rcall, rret>>
            ELSE /\ RReturn("Pending")
                 /\ rev' = "Pending"
                 /\ UNCHANGED state
    /\ UNCHANGED <<oldVars, encVars, decVars,
                   ready_ok, strategy, attempts, delay>>

\* poll_connected, State::Connecting: the connection future is polled.
RConnecting ==
    /\ rcall \in RPolls
    /\ state = "Connecting"
    /\ \E res \in {"Ok", "Err", "Pending"} :
         IF res = "Pending"
         THEN /\ RReturn("Pending")
              /\ rev' = "Pending"
              /\ UNCHANGED <<state, attempts>>
         ELSE /\ res = "Err" => attempts < MaxAttempts
              /\ state' = connecting(res, attempts).state
              /\ attempts' = connecting(res, attempts).attempts
              /\ rev' = IF res = "Ok" THEN "ConnOk" ELSE "ConnErr"
              /\ UNCHANGED <<rcall, rret>>
    /\ UNCHANGED <<oldVars, encVars, decVars, ready_ok, strategy, delay>>

\* Stream::poll_next on the established connection.
RPollNext ==
    /\ rcall = "poll_next"
    /\ state = "Connected"
    /\ \E res \in {"Pending", "SomeOk", "SomeErr", "None"} :
         CASE res = "Pending" -> /\ RReturn("Pending")
                                 /\ rev' = "Pending"
                                 /\ UNCHANGED <<state, attempts>>
           [] res = "SomeOk"  -> /\ RReturn("Item")
                                 /\ rev' = "NextOk"
                                 /\ UNCHANGED <<state, attempts>>
           [] OTHER           -> /\ attempts < MaxAttempts
                                 /\ state' = stream_failed(attempts).state
                                 /\ attempts' = stream_failed(attempts).attempts
                                 /\ rev' = IF res = "None" THEN "NextNone"
                                                            ELSE "NextErr"
                                 /\ UNCHANGED <<rcall, rret>>
    /\ UNCHANGED <<oldVars, encVars, decVars, ready_ok, strategy, delay>>

\* Sink::poll_ready on the established connection: `let _ =` drops what the
\* connection's poll_ready returned.
RPollReady ==
    /\ rcall = "poll_ready"
    /\ state = "Connected"
    /\ \E res \in {"Pending", "Ok", "Err"} :
         /\ RReturn(IF res = "Pending" THEN "Pending" ELSE "Ok")
         /\ rev' = IF res = "Pending" THEN "Pending" ELSE "Ready" \o res
    /\ ready_ok' = (rev' # "Pending")
    /\ UNCHANGED <<oldVars, encVars, decVars, state, strategy, attempts, delay>>

\* Sink::poll_flush and Sink::poll_close on the established connection:
\* what the connection returns is returned.
RPollFlushClose ==
    /\ rcall \in {"poll_flush", "poll_close"}
    /\ state = "Connected"
    /\ \E res \in {"Pending", "Ok", "Err"} :
         /\ RReturn(res)
         /\ rev' = IF res = "Pending" THEN "Pending" ELSE "Sink" \o res
    /\ UNCHANGED <<oldVars, encVars, decVars,
                   ready_ok, state, strategy, attempts, delay>>

\* Sink::start_send: a panic unless Connected, else the connection's
\* start_send and its result.
RStartSend ==
    /\ rcall = "none"
    /\ IF state = "Connected"
       THEN \E res \in {"Ok", "Err"} :
              /\ rret' = [op |-> "start_send", res |-> res]
              /\ rev' = "Send" \o res
              /\ UNCHANGED rcall
       ELSE /\ rcall' = "panicked"
            /\ rret' = [op |-> "start_send", res |-> "panic"]
            /\ rev' = "none"
    /\ ready_ok' = FALSE
    /\ UNCHANGED <<oldVars, encVars, decVars, state, strategy, attempts, delay>>

\* Reconnect::new(strategy, mk_connection)
InitReconnect ==
    /\ OldIdle
    /\ RawInit
    /\ EncIdle
    /\ DecIdle
    /\ state = "Idle"
    /\ strategy \in Strategies
    /\ attempts = 0
    /\ delay = 0
    /\ rcall = "none"
    /\ rret = [op |-> "none", res |-> "none"]
    /\ rev = "none"
    /\ ready_ok = FALSE

NextReconnect ==
    \/ RCall
    \/ RIdle
    \/ RDelaying
    \/ RConnecting
    \/ RPollNext
    \/ RPollReady
    \/ RPollFlushClose
    \/ RStartSend

SpecReconnect == InitReconnect /\ [][NextReconnect]_vars

\* poll_connected, State::Connecting, for a future that fails when the
\* counter is already at the bound of the model: the counter is held there,
\* so that failures without end are a cycle of finitely many states.
RConnectingAgain ==
    /\ rcall \in RPolls
    /\ state = "Connecting"
    /\ attempts = MaxAttempts
    /\ state' = connecting("Err", attempts).state
    /\ rev' = "ConnErr"
    /\ UNCHANGED <<oldVars, encVars, decVars,
                   ready_ok, strategy, attempts, delay,
                   rcall, rret>>

\* The steps the wrapper takes inside one poll.
RStep ==
    \/ RIdle
    \/ RDelaying
    \/ RConnecting
    \/ RConnectingAgain
    \/ RPollNext
    \/ RPollReady
    \/ RPollFlushClose

NextReconnectLive == RCall \/ RStep \/ RStartSend

\* A poll that has been called keeps running: the loop of poll_connected and
\* the method around it are straight-line code.
SpecReconnectLive ==
    InitReconnect /\ [][NextReconnectLive]_vars /\ WF_vars(RStep)

\* --------------------------------------------- the halves of split()
MaxSplitFrames == 1     \* frames the broker sends to a split connection

\* The broker writes one more frame to the split connection.
SplitBrokerSend ==
    /\ Len(consumed) + Len(inbound) < MaxSplitFrames
    /\ BrokerSend

\* BiLock::poll_lock: the lock if it is free, else Pending.
poll_lock_no_wait(l, who) == [lock |-> who, res |-> "acquired"]

\* BiLock::poll_lock: the lock if it is free, else Pending (the waker is
\* left with the lock and woken by the unlock).
poll_lock(l, who) ==
    IF l = "unlocked" THEN [lock |-> who, res |-> "acquired"]
                      ELSE [lock |-> l, res |-> "pending"]

\* Framed::poll_close, reached through Heartbeat::poll_close: flush, then
\* shut the write side down.
inner_poll_close(m, t) == inner_poll_flush(m, t)

\* SplitSink::poll_close: the slot, then the connection's poll_close.
split_poll_close(m, sl, t) ==
    LET f == split_flush_slot(m, sl, t) IN
    IF f.res # "ready" THEN f
    ELSE LET r == inner_poll_close(f.m, t) IN SRet(r.m, f.slot, r.res)

\* The polls of the Sink half that take the lock.
SinkPolls == {"poll_ready", "poll_flush", "poll_close"}

\* The Heartbeat is dropped, and the transport with it, when both halves are.
TransportDropped == spos = "dropped" /\ tpos = "dropped"

\* SplitStream::poll_next, up to poll_lock.
StreamLock ==
    /\ phase = "connected"
    /\ tpos = "out"
    /\ LET l == poll_lock(bilock, "stream") IN
       /\ bilock' = l.lock
       /\ IF l.res = "acquired" THEN tpos' = "in" /\ UNCHANGED tret
                                 ELSE tret' = "pending_lock" /\ UNCHANGED tpos
    /\ UNCHANGED <<hsVars, muxVars, prodVars, sinkVars, codecVars, rawVars,
                   encVars, decVars, reconVars, spos, sret, wr_shut>>

\* SplitStream::poll_next under the lock: Heartbeat::poll_next, and the
\* guard is dropped when the call returns. A write to a transport whose
\* write side was shut down fails.
StreamPollNext ==
    /\ phase = "connected"
    /\ tpos = "in"
    /\ LET r == poll_next(Mux, IF wr_shut THEN "broken" ELSE io, rdClosed) IN
       /\ SetMux(r.m)
       /\ tret' = r.res
    /\ bilock' = "unlocked"
    /\ tpos' = "out"
    /\ UNCHANGED <<hsVars, prodVars, sinkVars, codecVars, rawVars, encVars,
                   decVars, reconVars, rdClosed, io, spos, sret, wr_shut>>

\* A poll of the Sink half, up to poll_lock. poll_ready with an empty slot
\* returns Ready without the lock.
SinkLock ==
    /\ phase = "connected"
    /\ spos = "out"
    /\ \E op \in SinkPolls :
         IF op = "poll_ready" /\ slot = <<>>
         THEN /\ sret' = [op |-> op, res |-> "ready"]
              /\ UNCHANGED <<bilock, spos>>
         ELSE LET l == poll_lock(bilock, "sink") IN
              /\ bilock' = l.lock
              /\ IF l.res = "acquired"
                 THEN spos' = op /\ UNCHANGED sret
                 ELSE sret' = [op |-> op, res |-> "pending_lock"] /\ UNCHANGED spos
    /\ UNCHANGED <<hsVars, muxVars, prodVars, sinkVars, codecVars, rawVars,
                   encVars, decVars, reconVars, tpos, tret, wr_shut>>

\* The poll of the Sink half under the lock; the guard is dropped when the
\* call returns. A poll_close that returns Ready(Ok) has shut the write side.
SinkOp ==
    /\ phase = "connected"
    /\ spos \in SinkPolls
    /\ LET r == CASE spos = "poll_ready" -> split_poll_ready(Mux, slot, io)
                   [] spos = "poll_flush" -> split_poll_flush(Mux, slot, io)
                   [] OTHER               -> split_poll_close(Mux, slot, io)
       IN  /\ SetMux(r.m)
           /\ slot' = r.slot
           /\ sret' = [op |-> spos, res |-> r.res]
           /\ wr_shut' = (wr_shut \/ (spos = "poll_close" /\ r.res = "ready"))
           /\ spos' = IF spos = "poll_close" /\ r.res = "ready" THEN "closed"
                                                                 ELSE "out"
    /\ bilock' = "unlocked"
    /\ UNCHANGED <<hsVars, prodVars, codecVars, rawVars, encVars, decVars,
                   reconVars, rdClosed, io, rpc, chan, sent, sink_ret, tpos, tret>>

\* SplitSink::start_send after poll_ready returned Ready(Ok): the item goes
\* into the slot.
SplitStartSend ==
    /\ phase = "connected"
    /\ spos = "out"
    /\ sret = [op |-> "poll_ready", res |-> "ready"]
    /\ AppCount(wire \o enc_buf \o write_buf \o slot) < MaxSends
    /\ slot' = <<Pub>>
    /\ sret' = [op |-> "start_send", res |-> "ready"]
    /\ UNCHANGED <<hsVars, muxVars, prodVars, codecVars, rawVars, encVars,
                   decVars, reconVars, rpc, chan, sent, sink_ret,
                   bilock, spos, tpos, tret, wr_shut>>

\* The Stream half is dropped (its owner is done with it).
StreamDrop ==
    /\ phase = "connected"
    /\ tpos = "out"
    /\ tpos' = "dropped"
    /\ UNCHANGED <<hsVars, muxVars, prodVars, sinkVars, codecVars, rawVars,
                   encVars, decVars, reconVars, bilock, spos, sret, tret, wr_shut>>

\* The Sink half is dropped.
SinkDrop ==
    /\ phase = "connected"
    /\ spos \in {"out", "closed"}
    /\ spos' = "dropped"
    /\ UNCHANGED <<hsVars, muxVars, prodVars, sinkVars, codecVars, rawVars,
                   encVars, decVars, reconVars, bilock, tpos, sret, tret, wr_shut>>

\* Connection::split on an established connection over TCP.
InitSplit ==
    /\ pc = "connected"
    /\ config = DefaultConfig
    /\ first = "Json"
    /\ result = "Ok"
    /\ server = Caps(FALSE, FALSE, FALSE, FALSE, TRUE)
    /\ stack = <<"tcp", "framed", "heartbeat">>
    /\ steps = <<"Version", "Identify", "ReadIdentify", "Framed", "Heartbeat">>
    /\ level = 0
    /\ reads = <<"Json">>
    /\ phase = "connected"
    /\ response_remaining = HeartbeatNew.rem
    /\ status = HeartbeatNew.status
    /\ write_buf = <<>>
    /\ enc_buf = <<>>
    /\ wire = <<"Version", "Identify">>
    /\ inbound = <<>>
    /\ rdClosed = FALSE
    /\ io = "ok"
    /\ consumed = <<>>
    /\ delivered = <<>>
    /\ AuxInit
    /\ RawInit

NextSplit ==
    \/ StreamLock
    \/ StreamPollNext
    \/ SinkLock
    \/ SinkOp
    \/ SplitStartSend
    \/ StreamDrop
    \/ SinkDrop
    \/ SplitBrokerSend
    \/ TransportChange

SpecSplit == InitSplit /\ [][NextSplit]_vars

\* SinkProducer::poll_close: the error channel, then SplitSink::poll_close.
\* A close of the Sink half that returns Ready(Ok) has shut the write side.
SinkPollClose ==
    /\ phase = "connected"
    /\ rpc # "none"
    /\ LET p == sink_poll(chan) IN
       /\ chan' = p.c
       /\ IF p.e.kind # "ready"
          THEN /\ sink_ret' = [op |-> "poll_close", kind |-> p.e.kind,
                                code |-> p.e.code]
               /\ UNCHANGED <<muxVars, slot, wr_shut>>
          ELSE LET r == split_poll_close(Mux, slot, io) IN
               /\ SetMux(r.m)
               /\ slot' = r.slot
               /\ sink_ret' = SinkRet("poll_close", r.res)
               /\ wr_shut' = (wr_shut \/ r.res = "ready")
               /\ UNCHANGED <<rdClosed, io>>
    /\ UNCHANGED <<codecVars, rawVars, hsVars, prodVars, rpc, sent, encVars,
                   decVars, reconVars, bilock, spos, tpos, sret, tret>>

NextSinkClose == NextSink \/ SinkPollClose

SpecSinkClose == InitProducer /\ [][NextSinkClose]_vars

\* ------------------------------------------------------------- properties
IsHeartbeat(f) == decode(f) = "Heartbeat"

HBCount(s) == Len(SelectSeq(s, IsHeartbeat))

NopCount(s) == Len(SelectSeq(s, LAMBDA c : c = Nop))

\* The delivered items that stand for inbound frames, and the frames read
\* that are not heartbeats.
FrameItems == SelectSeq(delivered, LAMBDA d : d.src = "frame")

NonHB == SelectSeq(consumed, LAMBDA f : ~IsHeartbeat(f))

NonFatalCodes == {"E_FIN_FAILED", "E_REQ_FAILED", "E_TOUCH_FAILED"}

\* C1: the multiplexer hands exactly one Nop to the send side per heartbeat
\* frame it has read (a reply still owed is counted by response_remaining),
\* never writes more Nops than heartbeats, has written exactly one per
\* heartbeat once no reply is outstanding, and yields no item for a
\* heartbeat frame.
C1_OneNopPerHeartbeat ==
    /\ NopCount(wire \o write_buf) + response_remaining = HBCount(consumed)
    /\ NopCount(wire) <= HBCount(consumed)
    /\ (response_remaining = 0 /\ status = "Reading")
           => NopCount(wire) = HBCount(consumed)
    /\ Len(FrameItems) + HBCount(consumed) <= Len(consumed)

\* Two heartbeats answered with two flushed Nops, and a frame delivered.
C1_Witness ==
    /\ HBCount(consumed) = 2
    /\ NopCount(wire) = 2
    /\ response_remaining = 0
    /\ status = "Reading"
    /\ Len(FrameItems) = 1

\* C2: every frame the multiplexer has read was read only after the Nop for
\* each earlier heartbeat had been flushed to the transport, and while a
\* reply is outstanding the last frame read is still that heartbeat.
C2_ReplyFlushedBeforeNextFrame ==
    /\ \A i \in DOMAIN consumed :
           NopCount(wire) >= HBCount(SubSeq(consumed, 1, i - 1))
    /\ (response_remaining > 0 \/ status = "Responding")
           => /\ consumed # <<>>
              /\ IsHeartbeat(consumed[Len(consumed)])
              /\ Len(FrameItems) + HBCount(consumed) <= Len(consumed)

\* A reply is outstanding across a poll that returned Pending while a later
\* frame is already waiting to be read.
C2_Witness ==
    /\ status = "Responding"
    /\ NopCount(write_buf) = 1
    /\ io = "blocked"
    /\ inbound # <<>>
    /\ ~IsHeartbeat(inbound[1])

\* The item the receive side yields for a frame that is not a heartbeat.
ItemOf(f) ==
    LET v == decode(f) IN
    CASE v = "Ok"        -> Item("Ok", "", "frame")
      [] v = "CloseWait" -> Item("Eof", "", "frame")
      [] v = "Message"   -> Item("Msg", f.body, "frame")
      [] v = "Error"     -> IF f.body \in NonFatalCodes
                            THEN Item("Err", f.body, "frame")
                            ELSE Item("Fatal", f.body, "frame")
      [] v = "Json"      -> Item("StreamErr", "protocol", "frame")
      [] OTHER           -> Item("StreamErr", "unknown frame type", "frame")

\* C3: the items delivered for frames are, in order, the items of the frames
\* read with the heartbeats removed: none reordered, duplicated or dropped.
C3_DeliveredIsInboundWithoutHeartbeats ==
    /\ Len(FrameItems) = Len(NonHB)
    /\ \A i \in DOMAIN NonHB : FrameItems[i] = ItemOf(NonHB[i])

\* C4: an Error frame with one of the three non-fatal codes is delivered as
\* the in-stream value Err(e), any other Error frame as a stream error; and
\* the poll that delivers Err(e) leaves the multiplexer connected and reading.
C4_NonFatalErrorInStream ==
    /\ [](\A i \in DOMAIN FrameItems :
             decode(NonHB[i]) = "Error"
                 => FrameItems[i] =
                       Item(IF NonHB[i].body \in NonFatalCodes THEN "Err" ELSE "Fatal",
                            NonHB[i].body, "frame"))
    /\ [][(/\ delivered' # delivered
           /\ delivered'[Len(delivered')].item = "Err")
             => (/\ phase' = "connected"
                 /\ response_remaining' = 0
                 /\ status' = "Reading")]_vars

\* A non-fatal error was delivered in-stream and the next frame after it too.
C4_Witness ==
    \E i \in DOMAIN delivered :
        /\ i < Len(delivered)
        /\ delivered[i] = Item("Err", "E_TOUCH_FAILED", "frame")
        /\ delivered[i + 1].item = "Ok"

\* C5: once a fatal NSQ error has been yielded as a stream error, no later
\* inbound frame is delivered: nothing but the end of the stream follows it.
C5_FatalErrorTerminates ==
    \A i \in DOMAIN delivered :
        delivered[i].item = "Fatal"
            => \A j \in DOMAIN delivered :
                   j > i => delivered[j].item \notin {"Ok", "Msg", "Err", "Fatal"}

\* C6: every frame read is delivered, consumed by the heartbeat responder or
\* turned into an error item; a Json frame is surfaced as a protocol error.
C6_EveryFrameHandled ==
    /\ phase # "panicked"
    /\ Len(FrameItems) + HBCount(consumed) = Len(consumed)
    /\ \A i \in DOMAIN NonHB :
           decode(NonHB[i]) = "Json" => FrameItems[i].item = "StreamErr"


\* The place of each step in the handshake.
Rank(step) ==
    CASE step = "Version"        -> 1
      [] step = "Identify"       -> 2
      [] step = "ReadIdentify"   -> 3
      [] step = "Tls"            -> 4
      [] step = "Snappy"         -> 5
      [] step = "Deflate"        -> 5
      [] step = "ReadCompressOk" -> 6
      [] step = "Framed"         -> 7
      [] step = "Auth"           -> 8
      [] step = "ReadAuth"       -> 9
      [] step = "Heartbeat"      -> 10

\* C7: the steps connect performs are in the handshake order, each at most
\* once; a compression upgrade is followed by the read of its Ok before the
\* codec is installed; a Connection is returned only after the mandatory
\* steps, and none after a failure; nothing but the handshake commands is
\* written before the multiplexer is installed.
C7_HandshakeOrder ==
    /\ \A i, j \in DOMAIN steps : i < j => Rank(steps[i]) < Rank(steps[j])
    /\ "Framed" \in Range(steps) /\ Range(steps) \cap {"Snappy", "Deflate"} # {}
           => "ReadCompressOk" \in Range(steps)
    /\ "Heartbeat" \in Range(steps) /\ "Auth" \in Range(steps)
           => "ReadAuth" \in Range(steps)
    /\ (result = "Ok") = (pc = "connected")
    /\ (phase = "connected") = (pc = "connected")
    /\ pc = "connected"
           => /\ {"Version", "Identify", "ReadIdentify", "Framed", "Heartbeat"}
                     \subseteq Range(steps)
              /\ steps[Len(steps)] = "Heartbeat"
              /\ stack[Len(stack)] = "heartbeat"
    /\ pc \in {"failed", "panicked"} => "heartbeat" \notin Range(stack)
    /\ "heartbeat" \notin Range(stack)
           => /\ write_buf = <<>>
              /\ \E n \in 0..3 : wire = SubSeq(<<"Version", "Identify", "Auth">>, 1, n)

\* connect returned after a compression upgrade and an AUTH exchange.
C7_Witness ==
    /\ pc = "connected"
    /\ steps = <<"Version", "Identify", "ReadIdentify", "Deflate",
                 "ReadCompressOk", "Framed", "Auth", "ReadAuth", "Heartbeat">>
    /\ stack = <<"tcp", "deflate", "framed", "heartbeat">>

\* C8: when the first frame after IDENTIFY is Heartbeat, CloseWait, a
\* Message or an Error, connect returns an error and performs no further
\* step.
C8_UnexpectedFirstFrameFails ==
    first \in {"Heartbeat", "CloseWait", "Message", "Error"}
        => /\ pc = "failed"
           /\ result \notin {"Ok", "none", "panic"}
           /\ steps = <<"Version", "Identify", "ReadIdentify">>

\* The capabilities of a server that negotiated nothing.
DefaultCaps == Caps(FALSE, FALSE, FALSE, FALSE, TRUE)

\* C9: when feature negotiation is off and the first frame after IDENTIFY is
\* Ok, connect goes on with the default capabilities and returns a
\* Connection over the plain transport.
C9_OkReplyUsesDefaults ==
    (first = "Ok" /\ ~config.feature_negotiation)
        => /\ pc = "connected"
           /\ result = "Ok"
           /\ stack = <<"tcp", "framed", "heartbeat">>

\* C10: when the client negotiated features and asked for TLS and the
\* IDENTIFY reply has tls_v1 = true, the returned connection has the TLS layer right above TCP, set up
\* before compression and framing.
C10_TlsUpgraded ==
    (pc = "connected" /\ config.feature_negotiation /\ config.tls_v1 /\ server.tls_v1)
        => /\ Len(stack) >= 2
           /\ stack[2] = "tls"
           /\ "Tls" \in Range(steps)

\* ------------------------------------------------------------ compression
CompressionLayers == SelectSeq(stack, LAMBDA l : l \in {"snappy", "deflate"})

CompressReads == Len(SelectSeq(steps, LAMBDA st : st = "ReadCompressOk"))

\* C11: connect installs at most one compression layer: Snappy when the
\* server announced snappy, otherwise Deflate at the announced level when it
\* announced deflate, otherwise none. Once the layer is installed connect
\* goes on (to the codec, AUTH and the returned Connection) only after one
\* frame was read through the layer and it was Ok; any other frame makes
\* connect fail.
C11_OneCompressionLayer ==
    /\ Len(CompressionLayers) <= 1
    /\ CompressReads <= Len(CompressionLayers)
    /\ "snappy" \in Range(stack) => server.snappy
    /\ "deflate" \in Range(stack)
           => ~server.snappy /\ server.deflate /\ level = server.deflate_level
    /\ "framed" \in Range(stack)
           => /\ server.snappy => "snappy" \in Range(stack)
              /\ server.deflate => CompressionLayers # <<>>
              /\ CompressionLayers # <<>>
                     => CompressReads = 1 /\ Len(reads) >= 2 /\ reads[2] = "Ok"
    /\ (CompressReads = 1 /\ reads[2] # "Ok") => pc = "failed"

C11_Witness ==
    /\ pc = "connected"
    /\ server.snappy /\ server.deflate
    /\ CompressionLayers = <<"snappy">>
    /\ reads[2] = "Ok"

\* ------------------------------------------------------------------- auth
AuthWrites == Len(SelectSeq(wire, LAMBDA c : c = "Auth"))

\* C12: when the server requires auth and the configuration holds no secret
\* (none at all, or an empty one), connect fails with the error
\* Auth("Required auth secret") and writes no AUTH command.
C12_NoSecretNoAuth ==
    (/\ "Framed" \in Range(steps)
     /\ server.auth_required
     /\ config.auth_secret \in {<<>>, <<"">>})
        => pc = "failed" /\ result = "Auth" /\ AuthWrites = 0

\* C13: with a secret configured, once connect has read the reply to AUTH it
\* has written exactly one AUTH; a Json reply lets it continue (or fail on a
\* body that does not parse), an Error reply makes it fail with that NSQ
\* error, and any other frame makes it fail with a protocol error.
C13_AuthReplyHandled ==
    "ReadAuth" \in Range(steps)
        => /\ AuthWrites = 1
           /\ LET v == reads[Len(reads)] IN
              CASE v = "Json"  -> pc = "connected" \/ (pc = "failed" /\ result = "Json")
                [] v = "Error" -> pc = "failed" /\ result = "NsqError"
                [] OTHER       -> pc = "failed"

\* --------------------------------------------------------------- producer
PubCount(s) == Len(SelectSeq(s, LAMBDA c : c \in PublishCmds))

\* Publish calls that got as far as start_send, and those that got a reply.
Fed == Len(SelectSeq(returns, LAMBDA r : r.at \in {"flush", "receive"}))
           + (IF ppc \in {"flush", "receive", "panicked"} THEN 1 ELSE 0)

Replied == SelectSeq(returns, LAMBDA r : r.at = "receive")

\* C16: every publish call writes exactly one command and, once that is
\* flushed, consumes exactly one item of the receive side; it returns
\* success exactly when the item is Ok, the NSQ error when the item is an
\* error, and a protocol error (not a crash) when the item is a message.
C16_PublishOneCommandOneReply ==
    /\ PubCount(wire \o enc_buf \o write_buf) = Fed
    /\ \A i \in DOMAIN Replied :
          LET r == Replied[i] IN
          /\ (r.out = "Ok") = (r.item.item = "Ok")
          /\ r.item.item \in {"Err", "Fatal"} => r.out = "NsqError"
    /\ Len(SelectSeq(Replied, LAMBDA r : r.item.src = "frame")) = Len(FrameItems)
    /\ ppc = "panicked" => phase = "panicked"

\* C17: while a publish call waits for its reply, its command is on the
\* wire: nothing of it is left in the write buffer or in the encoder of a
\* compressed transport.
C17_FlushedBeforeWaiting ==
    ppc = "receive"
        => /\ PubCount(write_buf \o enc_buf) = 0
           /\ PubCount(wire) = Fed
           /\ pcmd \in Range(wire)

C17_Witness ==
    /\ ppc = "receive"
    /\ "deflate" \in Range(stack)
    /\ io = "blocked"
    /\ pcmd \in Range(wire)
    /\ Nop \in Range(enc_buf)

\* -------------------------------------------------------------- sink mode
OkItems(s) == \A i \in DOMAIN s : s[i].item = "Ok"

\* The error the reader derives from an item of the stream.
ErrOf(it) == IF it.item \in {"Err", "Fatal"} THEN Err("NsqError", it.code)
                                             ELSE Err("Io", it.code)

\* C18: the reader task sends at most one value over the error channel. Ok
\* items never cause a send; the first error item, or the first error of the
\* stream, is sent once, and the reader reads nothing after it.
C18_ReaderSendsAtMostOnce ==
    /\ [](/\ Len(sent) <= 1
          /\ rpc = "reading" => sent = <<>> /\ OkItems(delivered)
          /\ sent # <<>>
                => /\ rpc = "done"
                   /\ OkItems(SubSeq(delivered, 1, Len(delivered) - 1))
                   /\ delivered[Len(delivered)].item
                          \in {"Err", "Fatal", "StreamErr", "PongErr"}
                   /\ sent[1] = ErrOf(delivered[Len(delivered)]))
    /\ [][sent # <<>> => consumed' = consumed /\ sent' = sent]_vars

C18_Witness ==
    /\ Len(sent) = 1
    /\ Len(delivered) = 2
    /\ delivered[1].item = "Ok"
    /\ chan.val = <<sent[1]>>

\* C19: a message frame reaching the reader is reported through the error
\* channel as a protocol error; the reader task does not crash.
C19_ReaderReportsMessage ==
    (rpc # "none" /\ delivered # <<>> /\ delivered[Len(delivered)].item = "Msg")
        => rpc = "done" /\ Len(sent) = 1

\* C20: the first poll_ready after the reader sent an error returns that
\* error instead of ready.
C20_FirstPollReturnsError ==
    [][(chan.val # <<>> /\ sink_ret' # sink_ret /\ sink_ret'.op = "poll_ready")
          => sink_ret' = [op |-> "poll_ready", kind |-> chan.val[1].kind,
                          code |-> chan.val[1].code]]_vars

C20_Witness ==
    /\ Len(sent) = 1
    /\ chan.val = <<>>
    /\ sink_ret = [op |-> "poll_ready", kind |-> sent[1].kind, code |-> sent[1].code]
    /\ wire # <<"Version", "Identify">>

\* ------------------------------------------------------ the transport stack
\* C14: once connect has returned, the transport stack (and the level of
\* its deflate layer) never changes, whatever is sent, received, answered
\* to a heartbeat or done through the split halves; and a codec that is no
\* longer Plain never becomes Snappy or Deflate by a further upgrade.
C14_StackNeverChanges ==
    [][/\ stack' = stack
       /\ level' = level
       /\ (compress # "Plain" /\ compress' # compress) => compress' = "None"]_vars

C14_Witness ==
    /\ "deflate" \in Range(stack)
    /\ Pub \in Range(wire)
    /\ Nop \in Range(wire)
    /\ rpc = "done"
    /\ compress = "None"

\* ------------------------------------------------------- handshake reads
\* The bytes the stack still holds for whoever reads next.
Available == lbuf \o (IF blayer = "none" THEN sock ELSE Unzip(sock))

PollOps == {"poll_ready", "poll_flush", "poll_close"}

\* C21: once the reader has reported an error e and a readiness check has
\* returned it, every later readiness check returns e again.
C21_ErrorSurfacedAgain ==
    (Len(sent) = 1 /\ chan.val = <<>> /\ sink_ret.op \in PollOps)
        => sink_ret.kind = sent[1].kind /\ sink_ret.code = sent[1].code

\* The channel is closed and no error was ever sent through it.
ClosedWithoutError == chan.tx = "gone" /\ sent = <<>>

\* C22: once the error channel is closed without an error having been sent,
\* a readiness check returns an unexpected-EOF error, in every later state
\* and for every check that is made; none reports ready.
C22_ClosedChannelIsEof ==
    /\ [](ClosedWithoutError => sink_poll(chan).e.kind = "UnexpectedEof")
    /\ [][(ClosedWithoutError /\ sink_ret' # sink_ret /\ sink_ret'.op \in PollOps)
             => sink_ret'.kind = "UnexpectedEof"]_vars
    /\ [][ClosedWithoutError => ClosedWithoutError']_vars

C22_Witness ==
    /\ ClosedWithoutError
    /\ rpc = "done"
    /\ delivered # <<>>
    /\ delivered[Len(delivered)].item = "Eof"
    /\ sink_ret.op = "poll_flush"
    /\ sink_ret.kind = "UnexpectedEof"

\* ------------------------------------------------------ order of commands
\* The commands the caller has handed to the connection's start_send, in the
\* order of the calls.
Submitted ==
    LET done == SelectSeq(returns, LAMBDA r : r.at \in {"flush", "receive"})
        past == [i \in DOMAIN done |-> done[i].cmd]
    IN  IF ppc \in {"flush", "receive", "panicked"} THEN Append(past, pcmd)
                                                      ELSE past

\* What the connection has written or is about to write, oldest first.
Outbound == wire \o enc_buf \o write_buf

PongDue ==
    \/ response_remaining > 0
    \/ status = "Responding"
    \/ (inbound # <<>> /\ decode(Head(inbound)) = "Heartbeat")

\* C26: when the write or the flush of the Nop reply fails, the receive poll
\* that made it returns a transport error; the poll is not left pending, no
\* Nop reaches the transport, and the heartbeat stays unanswered (still
\* counted, or still in the Responding state).
C26_PongFailureReported ==
    (phase = "connected" /\ io = "broken" /\ PongDue)
        => LET r == poll_next(Mux, io, rdClosed) IN
           /\ r.res = "ready"
           /\ r.m.delivered # <<>>
           /\ r.m.delivered[Len(r.m.delivered)] = Item("PongErr", "", "transport")
           /\ r.m.wire = wire
           /\ r.m.rem > 0 \/ r.m.status = "Responding"

C26_Witness ==
    /\ io = "broken"
    /\ status = "Responding"
    /\ Nop \in Range(write_buf)
    /\ NopCount(wire) = 0
    /\ consumed # <<>>
    /\ IsHeartbeat(consumed[Len(consumed)])
    /\ delivered # <<>>
    /\ delivered[Len(delivered)] = Item("PongErr", "", "transport")

\* ------------------------------------------------------------- encoding
\* The big-endian u32 that starts at position i of s.
U32At(s, i) == ((s[i] * 256 + s[i + 1]) * 256 + s[i + 2]) * 256 + s[i + 3]

RECURSIVE SumSizes(_)
\* the sum of 4 + len(m) over the messages
SumSizes(msgs) ==
    IF msgs = <<>> THEN 0 ELSE 4 + Len(Head(msgs)) + SumSizes(Tail(msgs))

\* C27: in the encoding of Mpub(topic, msgs) the u32 after the header is
\* 4 + the sum of (4 + len(m)) over msgs, and the u32 after it is len(msgs).
C27_MpubBodyLen ==
    (ein.kind = "Mpub" /\ eout # <<>>)
        => /\ U32At(eout, Len(MpubHeader) + 1) = 4 + SumSizes(ein.msgs)
           /\ U32At(eout, Len(MpubHeader) + 5) = Len(ein.msgs)

\* C29: a Config with Deflate{level: N} serializes to an object with
\* deflate = true, deflate_level = N and no snappy key; for every mode at
\* most one of snappy and deflate is true in the object.
C29_CompressionKeys ==
    (ein.kind = "Config" /\ eout # <<>>)
        => /\ ein.config.compress.mode = "Deflate"
                => /\ Get(eout, "deflate") = {TRUE}
                   /\ Get(eout, "deflate_level") = {ein.config.compress.level}
                   /\ Get(eout, "snappy") = {}
           /\ ~(TRUE \in Get(eout, "snappy") /\ TRUE \in Get(eout, "deflate"))

C29_Witness ==
    /\ ein.kind = "Config"
    /\ ein.config.compress = [mode |-> "Deflate", level |-> 6]
    /\ eout # <<>>
    /\ Get(eout, "deflate_level") = {6}

\* ------------------------------------------------------------- decoding
RECURSIVE TotalLen(_)
TotalLen(fs) == IF fs = <<>> THEN 0 ELSE Len(Head(fs)) + TotalLen(Tail(fs))

\* Bytes decode has taken out of the read buffer: the frames it returned,
\* and the length field of the frame it is waiting for.
Taken == TotalLen(SubSeq(dframes, 1, Len(dec_out)))
             + (IF ld_state = <<>> THEN 0 ELSE 4)

\* Bytes of the frame decode is working on that have arrived.
Have == (IF ld_state = <<>> THEN 0 ELSE 4) + Len(framed_buf)

\* The frame holds a frame type and the body its type requires.
WellFormed(f) ==
    /\ Len(f) >= 8
    /\ get_i32(SubSeq(f, 5, 8)) = 2 => Len(f) >= 8 + MESSAGE_HEAD_LEN

\* C28: however the byte stream is cut into chunks, decode returns need-more
\* exactly until the 4 length bytes and the L payload bytes of the next
\* frame are buffered; it then returns that frame's payload, having taken
\* 4 + L bytes and left the later bytes in the buffer; a frame whose type
\* is none of 0, 1, 2 is returned as an error.
C28_DecodeIncremental ==
    /\ dframes # <<>> =>
         /\ framed_buf \o sock = SubSeq(bsent, Taken + 1, Len(bsent))
         /\ \A i \in DOMAIN dec_out :
               /\ dec_out[i].payload = SubSeq(dframes[i], 5, Len(dframes[i]))
               /\ WellFormed(dframes[i]) =>
                     (dec_out[i].res = "DecodeError")
                         = (get_i32(SubSeq(dframes[i], 5, 8)) \notin {0, 1, 2})
               /\ WellFormed(dframes[i]) => dec_out[i].res # "panic"
    /\ (dframes # <<>> /\ ~DecStopped) =>
         LET r == codec_decode(ld_state, framed_buf)
             k == Len(dec_out)
         IN  /\ (r.res = "need_more")
                    = (k = Len(dframes) \/ Have < Len(dframes[k + 1]))
             /\ r.res # "need_more" =>
                    /\ r.st = <<>>
                    /\ r.payload = SubSeq(dframes[k + 1], 5, Len(dframes[k + 1]))
                    /\ Len(framed_buf) - Len(r.buf)
                           = Len(dframes[k + 1]) - (IF ld_state = <<>> THEN 0 ELSE 4)

C28_Witness ==
    /\ Len(dframes) = 2
    /\ Len(dec_out) = 1
    /\ dec_out[1].res = "Message"
    /\ ld_state # <<>>
    /\ dec_last = "need_more"
    /\ framed_buf # <<>>
    /\ sock # <<>>

\* ------------------------------------------------------------ reconnect
\* C30: attempts is 0 when the wrapper is built and right after every
\* successful connection; every failed connection attempt and every error
\* or end of stream of the established connection adds exactly 1 to it, and
\* nothing else changes it.
C30_AttemptsCounted ==
    /\ [](rret.op = "none" /\ rcall = "none" => attempts = 0)
    /\ [][/\ rev' = "ConnOk" => (attempts' = 0 /\ state' = "Connected")
          /\ rev' \in {"ConnErr", "NextErr", "NextNone"}
                => attempts' = attempts + 1
          /\ rev' \notin {"ConnOk", "ConnErr", "NextErr", "NextNone"}
                => attempts' = attempts]_reconVars

C30_Witness ==
    /\ attempts = 0
    /\ state = "Connected"
    /\ rev = "ConnOk"
    /\ rret = [op |-> "poll_next", res |-> "Pending"]
    /\ strategy.kind = "Exponential"
    /\ delay > 0

\* ---------------------------------------------------------------- split
\* C24: the two halves are never inside the connection at once, whatever
\* the interleaving of their polls; and when the Stream half has returned
\* Pending for want of input, the Sink half gets the lock, so that its send
\* and flush go through.
C24_HalvesSerialized ==
    /\ ~(tpos = "in" /\ spos \in SinkPolls)
    /\ (tpos = "in") = (bilock = "stream")
    /\ (spos \in SinkPolls) = (bilock = "sink")
    /\ (tret = "pending" /\ tpos = "out" /\ spos = "out")
          => poll_lock(bilock, "sink").res = "acquired"

C24_Witness ==
    /\ tret = "pending"
    /\ tpos = "out"
    /\ inbound = <<>>
    /\ consumed = <<>>
    /\ sret = [op |-> "poll_flush", res |-> "ready"]
    /\ Pub \in Range(wire)

\* C25: closing the Sink half has shut the transport down, and so has
\* dropping the Stream half.
C25_EitherHalfCloses ==
    /\ spos = "closed" => wr_shut
    /\ tpos = "dropped" => (wr_shut \/ TransportDropped)

\* C31: with Exponential(d) the delay waited before a connection attempt is
\* d times attempts, whatever d is (in milliseconds here: delay is kept in
\* seconds); with Immediat the Delaying state is never entered.
C31_DelayIsDurationTimesAttempts ==
    /\ (strategy.kind = "Exponential" /\ state = "Delaying")
          => delay * 1000 = strategy.ms * attempts
    /\ strategy.kind = "Immediat" => state # "Delaying"

\* What the wrapped connection answers when it fails or ends.
ConnFailures == {"NextErr", "NextNone", "ReadyErr", "SendErr", "SinkErr"}

\* C32: whenever the wrapped connection returns an error, or ends, from one
\* of its stream or sink methods, the wrapper leaves the Connected state;
\* and a poll_ready of the connection that returned an error is never
\* reported as Ready(Ok) by the wrapper.
C32_RetryOnEveryError ==
    [][/\ rev' \in ConnFailures => state' # "Connected"
       /\ rev' = "ReadyErr" => rret'.res # "Ok"]_reconVars

\* --------------------------------------------------- replies are not lost
\* A consumed heartbeat has no flushed Nop yet. Both counts only grow, so
\* when none is owed every heartbeat consumed before has its Nop.
ReplyOwed == HBCount(consumed) > NopCount(wire)

\* C33: if the transport accepts writes from some point on, every heartbeat
\* the multiplexer has consumed is eventually answered by a Nop written and
\* flushed to the transport, the receive side being polled fairly.
C33_HeartbeatEventuallyAnswered ==
    <>[](io = "ok") => (ReplyOwed ~> ~ReplyOwed)

C33_Witness ==
    /\ io = "blocked"
    /\ response_remaining > 0
    /\ status = "Reading"
    /\ HBCount(consumed) = NopCount(wire) + 1
    /\ NopCount(write_buf) = 0

\* C34: every poll of the reconnect wrapper returns (Pending or Ready) after
\* finitely many steps, also when the strategy is Immediat or the delay is
\* zero and every connection attempt fails as soon as it is polled.
C34_EveryPollReturns == (rcall \in RPolls) ~> (rcall = "none")

\* C35: once poll_ready of the reconnect wrapper has returned Ready(Ok), and
\* the caller has made nothing but poll_next calls since, start_send finds
\* the wrapper Connected and does not panic.
C35_SendAfterReadyDoesNotPanic ==
    [][ready_ok => rcall' # "panicked"]_reconVars

\* Of the first i publish calls, those whose command was handed to the
\* connection, and those that consumed a frame of the broker.
FedUpTo(i) ==
    Len(SelectSeq(SubSeq(returns, 1, i),
                  LAMBDA r : r.at \in {"flush", "receive"}))

ReadUpTo(i) ==
    Len(SelectSeq(SubSeq(returns, 1, i),
                  LAMBDA r : r.at = "receive" /\ r.item.src = "frame"))

\* C36: the reply a publish call consumes is the broker's reply to that
\* call's own command (the broker answers commands in order, so the k-th
\* command is answered by the k-th reply), also after an earlier call was
\* dropped between its flush and its reply.
C36_ReplyBelongsToCall ==
    \A i \in DOMAIN returns :
        (returns[i].at = "receive" /\ returns[i].item.src = "frame")
            => FedUpTo(i) = ReadUpTo(i)

\* The reader has reported an error that is still in the channel, or the
\* channel is closed.
ChannelDown == chan.val # <<>> \/ chan.tx = "gone"

\* C37: poll_close and poll_flush of the SinkProducer look at the error
\* channel first: when the reader has reported an error or the channel is
\* closed they return an error and do not call close (or flush) on the Sink
\* half, so the write side is not shut down and buffered commands stay
\* where they are.
C37_ErrorBeforeCloseOrFlush ==
    [][(ChannelDown /\ (SinkPollClose \/ SinkPollFlush))
          => /\ sink_ret'.kind \notin {"ready", "pending"}
             /\ UNCHANGED <<wr_shut, slot, write_buf, enc_buf, wire>>]_vars

C37_Witness ==
    /\ sink_ret.op = "poll_close"
    /\ sink_ret.kind \in {"NsqError", "UnexpectedEof"}
    /\ slot # <<>>
    /\ ~wr_shut

\* The reader task has reported an error.
ReaderReported == sent # <<>>

\* C38: in sink mode, once the reader task has reported an error (a
\* non-fatal NSQ error included) it reads no further inbound frame, so a
\* heartbeat that arrives afterwards is never answered: the Nops handed out
\* stay within the heartbeats read before.
C38_NoReadAfterReport ==
    [][ReaderReported
          => /\ rpc' = "done"
             /\ consumed' = consumed
             /\ NopCount(wire' \o enc_buf' \o write_buf') <= HBCount(consumed)]_vars

C38_Witness ==
    /\ ReaderReported
    /\ sent[1].code \in NonFatalCodes
    /\ inbound # <<>>
    /\ IsHeartbeat(Head(inbound))
    /\ sink_ret.op = "poll_flush"
    /\ sink_ret.kind = "UnexpectedEof"

\* C39: NsqCodec::decode returns a value for every input buffer (need-more,
\* a frame or an Error); a frame whose declared length is below 4 and a
\* Message frame whose body is shorter than the 26 bytes of timestamp,
\* attempts and id give an error, not an abort of the task.
C39_DecodeAlwaysReturns ==
    /\ dec_last # "panic"
    /\ \A i \in DOMAIN dec_out :
          (Len(dec_out[i].payload) < 4
             \/ (get_i32(SubSeq(dec_out[i].payload, 1, 4)) = 2
                   /\ Len(dec_out[i].payload) < 4 + MESSAGE_HEAD_LEN))
              => dec_out[i].res = "DecodeError"

\* C40: response_remaining is 0 or 1 in every reachable state (so start_pong
\* sends at most one Nop per successful poll_ready), and status is Responding
\* only while a Nop has been handed to the inner sink and its flush has not
\* been confirmed: every heartbeat read has its Nop handed over, and status
\* goes back to Reading only in a poll that left no Nop in the write buffer
\* and has the Nop of every heartbeat read before on the wire.
C40_OneReplyOutstanding ==
    /\ [](response_remaining \in {0, 1})
    /\ [](status = "Responding"
             => /\ response_remaining = 0
                /\ HBCount(consumed) >= 1
                /\ NopCount(wire \o enc_buf \o write_buf) = HBCount(consumed))
    /\ [][(status = "Responding" /\ status' = "Reading")
             => /\ NopCount(enc_buf' \o write_buf') = 0
                /\ NopCount(wire') >= HBCount(consumed)]_muxVars

C40_Witness ==
    /\ status = "Responding"
    /\ io = "blocked"
    /\ NopCount(write_buf) = 1
    /\ HBCount(consumed) = 2
    /\ NopCount(wire) = 1

====
